---------------------------- MODULE Spec2Model ----------------------------
(***************************************************************************)
(* SAS form automation: the retry wrapper (fill_form), the sequential     *)
(* batch loop of the web application (run_automation) and the worker pool *)
(* (process_students_parallel), with the checkpoint / results store.      *)
(*                                                                         *)
(* Tasks are numbered 1..total_count (task t is students[t-1]).           *)
(* Automator 0 is the one run_automation constructs; automator t > 0 is   *)
(* the one a pool task t constructs in get_worker_automator.              *)
(* Outcome lists and the rows of the results file are kept as bags of     *)
(* outcome records: the order of the rows is not modelled.                *)
(***************************************************************************)
EXTENDS Naturals, Integers, Sequences, FiniteSets, Bags, TLC

(* ------------------------------ bounds -------------------------------- *)
MaxTasks == 3
MaxWorkers == 2
MaxFaulty == 1
MaxCalls == 4
MaxRows == 2
MaxLockTasks == 2
MaxInputs == 4

(* ------------------------- program constants -------------------------- *)
max_retries == 3
BackoffCap == 10
CheckpointInterval == 50
RestartIntervalSeq == 100
RestartIntervalPar == 200

VARIABLES
    total_count,      \* len(students)
    num_workers,      \* the pool size
    faulty,           \* tasks during which the environment can fail
    bad_callbacks,    \* the caller's callbacks can raise
    no_email,         \* TRUE: the sheet has no Email column (placeholder)
    io_faulty,        \* writes to the checkpoint directory can fail
    driver,           \* automator -> "none" | "live" | "dead" | "closed"
    forms,            \* automator -> forms_processed_since_restart
    tpc,              \* task -> position of the code processing it
    attempt,          \* task -> fill_form's loop variable
    auto,             \* task -> automator whose fill_form processes it
    calls,            \* task -> invocations of _fill_form_single so far
    delays,           \* task -> backoff sleeps (line 317) of the fill_form call
    ret,              \* task -> outcome returned by fill_form, or NoOutcome
    screenshots,      \* names of the ERROR_*.png files written
    captures,         \* the save_screenshot calls made: <<task, succeeded>>
    self_results,     \* self.results of automator 0
    results_file,     \* results.csv
    snapshots,        \* number of SAS_Results_*.csv copies written
    checkpoint,       \* progress.json
    warnings,         \* "Error saving ..." entries of self.logs
    result_queue,     \* run_automation's result_queue
    session_results,  \* st.session_state.results, the outcomes tallied
    stop_pressed,     \* the Stop button was pressed
    mpc,              \* position of run_automation / process_students_parallel
    seq_i,            \* the sequential loop's index i
    browser_pool,     \* slot -> automator of the slot, 0 when absent
    lock,             \* the task holding the lock, 0 when free
    processed_count,  \* the nonlocal counter
    results,          \* the shared outcome list
    submitted,        \* tasks submitted to the executor so far
    unyielded_ok,     \* finished futures as_completed has not yielded yet
    unyielded_exc,    \* the same, futures holding an exception
    yielded,          \* futures the collecting loop has taken
    stop_flag,        \* stop_flag.is_set()
    shutdown,         \* executor.shutdown(cancel_futures=True) was called
    exc_pending,      \* an exception is leaving the pool block
    running_at_cancel, \* tasks that were running when the pool was cancelled
    last_call,        \* the latest call made on the store of automator 0
    ncalls,           \* the number of such calls
    browser_choice,   \* 'auto', 'chrome', 'firefox' or 'edge'
    launchable,       \* the engines that can be launched on this machine
    tried,            \* the engines setup_driver has tried, in order
    browser_name,     \* self.browser_name
    excel,            \* "ok" | "pandas_fails" | "unreadable"
    sheet,            \* the spreadsheet: its columns and its data rows
    students,         \* the list read_excel returned
    step,             \* position of _fill_form_single, "none" outside it
    page_log,         \* what the attempt has done on the page it loaded
    submit_clicks,    \* Submit clicks made during the fill_form call
    signal,           \* "seen" | "absent": the wait for a submission signal
    last_error,       \* fill_form's last_error
    error_msg,        \* the error the returned Failed outcome carries
    buf_list,         \* self.results as a list
    csv_lines,        \* the lines of results.csv in the list model
    csv_exists,       \* that file exists
    appended          \* every outcome appended to self.results, in order

fillVars == <<driver, forms, tpc, attempt, auto, calls, delays, ret, screenshots,
              captures>>
storeVars == <<self_results, results_file, snapshots, checkpoint, warnings>>
callVars == <<last_call, ncalls>>
launchVars == <<browser_choice, launchable, tried, browser_name>>
sheetVars == <<excel, sheet, students>>
singleVars == <<step, page_log, submit_clicks, signal, last_error, error_msg>>
csvVars == <<buf_list, csv_lines, csv_exists, appended>>
detailVars == <<singleVars, csvVars>>
batchInputs == <<total_count, num_workers, faulty, bad_callbacks, no_email,
                 io_faulty>>
(* what no step of a batch changes *)
inputVars == <<batchInputs, callVars, launchVars, sheetVars, detailVars>>
poolVars == <<browser_pool, lock, processed_count, results, submitted,
              unyielded_ok, unyielded_exc, yielded, stop_flag, shutdown,
              exc_pending, running_at_cancel>>
seqVars == <<result_queue, session_results, stop_pressed, seq_i>>

Min(a, b) == IF a < b THEN a ELSE b

Tasks == 1..total_count

NoOutcome == [task |-> 0, status |-> "none", message |-> "none"]
NoFile == [exists |-> FALSE, rows |-> EmptyBag]
NoCheckpoint == [exists |-> FALSE, processed_count |-> 0, total_count |-> 0,
                 results_count |-> 0]

(* The batch sizes explored: small batches, and the batches that reach and *)
(* pass the first checkpoint.                                              *)
TaskCounts == (1..MaxTasks) \cup {CheckpointInterval, CheckpointInterval + 1}

(* The tasks that may be faulty: any task of a small batch, the task that *)
(* completes the checkpoint interval in a long one.                       *)
FaultyCandidates(n) == IF n <= MaxTasks THEN 1..n ELSE {CheckpointInterval}

(* The pool sizes explored: long batches run on a one-slot pool.          *)
WorkerCounts(n) == IF n <= MaxTasks THEN 1..MaxWorkers ELSE {1}

(* ----------------------------- fill_form ------------------------------ *)

(* the backoff counted from the failed attempt instead of the next one *)
BackoffDelayFromFailure(a) == Min(2 ^ (a - 1), BackoffCap)

(* wait_time = min(2 ** attempt, 10), slept before attempt number a > 1 *)
BackoffDelay(a) == Min(2 ^ a, BackoffCap)

SuccessOutcome(t) ==
    [task |-> t, status |-> "Success", message |-> "Completed successfully"]

FailedOutcome(t) ==
    [task |-> t, status |-> "Failed", message |-> "Failed after 3 attempts"]

(* the e-mail address of the task record, as read_excel builds it *)
EmailOf(t) == IF no_email THEN 0 ELSE t

(* fill_form is entered for task t on automator a *)
EnterFillForm(t, a) ==
    /\ attempt' = [attempt EXCEPT ![t] = 1]
    /\ auto' = [auto EXCEPT ![t] = a]
    /\ calls' = [calls EXCEPT ![t] = 0]
    /\ delays' = [delays EXCEPT ![t] = << >>]
    /\ ret' = [ret EXCEPT ![t] = NoOutcome]

(* the sleeps of one pass of the loop body before _fill_form_single *)
SleptBefore(t) ==
    IF attempt[t] > 1 THEN Append(delays[t], BackoffDelay(attempt[t]))
    ELSE delays[t]

(* The attempt of the loop at line 311 succeeds: _fill_form_single        *)
(* returns, which needs a responsive session.                             *)
AttemptSucceeds(t) ==
    /\ tpc[t] = "attempt"
    /\ driver[auto[t]] = "live"
    /\ delays' = [delays EXCEPT ![t] = SleptBefore(t)]
    /\ calls' = [calls EXCEPT ![t] = @ + 1]
    /\ forms' = [forms EXCEPT ![auto[t]] = @ + 1]
    /\ ret' = [ret EXCEPT ![t] = SuccessOutcome(t)]
    /\ tpc' = [tpc EXCEPT ![t] = "filled"]
    /\ UNCHANGED <<driver, attempt, auto, screenshots, captures>>

(* one attempt too many: the last failure is retried as well *)
AfterFailureOffByOne(a) == IF a <= max_retries THEN "probe" ELSE "exhausted"

(* where the except clause of line 321 leaves the loop *)
AfterFailure(a) == IF a < max_retries THEN "probe" ELSE "exhausted"

(* The attempt raises: the page misbehaves (a faulty task) or the session *)
(* does not respond; the session may stop responding during the attempt.  *)
AttemptFails(t) ==
    /\ tpc[t] = "attempt"
    /\ t \in faulty \/ driver[auto[t]] # "live"
    /\ delays' = [delays EXCEPT ![t] = SleptBefore(t)]
    /\ calls' = [calls EXCEPT ![t] = @ + 1]
    /\ \E d \in {driver[auto[t]], "dead"} :
          /\ driver[auto[t]] # "live" => d = driver[auto[t]]
          /\ driver' = [driver EXCEPT ![auto[t]] = d]
    /\ tpc' = [tpc EXCEPT ![t] = AfterFailure(attempt[t])]
    /\ UNCHANGED <<forms, attempt, auto, ret, screenshots, captures>>

(* close_driver: quit() on the session, every error swallowed *)
Closed(d) == IF d = "none" THEN "none" ELSE "closed"

(* self.driver.current_url answers: the same session is retried *)
ProbeAlive(t) ==
    /\ tpc[t] = "probe"
    /\ driver[auto[t]] = "live"
    /\ attempt' = [attempt EXCEPT ![t] = @ + 1]
    /\ tpc' = [tpc EXCEPT ![t] = "attempt"]
    /\ UNCHANGED <<driver, forms, auto, calls, delays, ret, screenshots, captures>>

(* the probe raises and the session is retried as it is *)
ProbeDeadReuses(t) ==
    /\ tpc[t] = "probe"
    /\ driver[auto[t]] # "live"
    /\ attempt' = [attempt EXCEPT ![t] = @ + 1]
    /\ tpc' = [tpc EXCEPT ![t] = "attempt"]
    /\ UNCHANGED <<driver, forms, auto, calls, delays, ret, screenshots, captures>>

(* the probe raises: close_driver(), then setup_driver() after a pause *)
ProbeDead(t) ==
    /\ tpc[t] = "probe"
    /\ driver[auto[t]] # "live"
    /\ driver' = [driver EXCEPT ![auto[t]] = Closed(@)]
    /\ tpc' = [tpc EXCEPT ![t] = "relaunch"]
    /\ UNCHANGED <<forms, attempt, auto, calls, delays, ret, screenshots, captures>>

(* setup_driver() at line 335 launches a session *)
RelaunchOk(t) ==
    /\ tpc[t] = "relaunch"
    /\ driver' = [driver EXCEPT ![auto[t]] = "live"]
    /\ attempt' = [attempt EXCEPT ![t] = @ + 1]
    /\ tpc' = [tpc EXCEPT ![t] = "attempt"]
    /\ UNCHANGED <<forms, auto, calls, delays, ret, screenshots, captures>>

(* setup_driver() at line 335 raises inside the except clause: the        *)
(* exception leaves fill_form                                             *)
RelaunchFails(t) ==
    /\ tpc[t] = "relaunch"
    /\ t \in faulty
    /\ tpc' = [tpc EXCEPT ![t] = "fill_raised"]
    /\ UNCHANGED <<driver, forms, attempt, auto, calls, delays, ret, screenshots, captures>>

(* the last error is raised again instead of being returned as an outcome *)
AfterExhaustedRaises == "fill_raised"

(* line 350: once the loop is exhausted fill_form returns the outcome *)
AfterExhausted == "filled"

(* Lines 337-357: the screenshot is best effort (shot = FALSE: it raised  *)
(* and was swallowed), the counter is incremented, Failed is returned.    *)
Exhausted(t) ==
    /\ tpc[t] = "exhausted"
    /\ \E shot \in BOOLEAN :
          /\ shot => driver[auto[t]] = "live"
          /\ screenshots' = IF shot THEN screenshots \cup {EmailOf(t)}
                            ELSE screenshots
          /\ captures' = captures \cup {<<t, shot>>}
    /\ forms' = [forms EXCEPT ![auto[t]] = @ + 1]
    /\ ret' = [ret EXCEPT ![t] = FailedOutcome(t)]
    /\ tpc' = [tpc EXCEPT ![t] = AfterExhausted]
    /\ UNCHANGED <<driver, attempt, auto, calls, delays>>

(* one step of fill_form for task t *)
FillForm(t) ==
    \/ AttemptSucceeds(t)
    \/ AttemptFails(t)
    \/ ProbeAlive(t)
    \/ ProbeDead(t)
    \/ RelaunchOk(t)
    \/ RelaunchFails(t)
    \/ Exhausted(t)

(* ---------------------- _fill_form_single, step by step ---------------- *)

(* no exception caught yet: last_error = None *)
NoError == [attempt |-> 0, at |-> "none"]

(* what the attempt did on the page: the kind of the action, and for a   *)
(* text typed the index of the input and the field of the task record    *)
Ev(kind, input, field) == [kind |-> kind, input |-> input, field |-> field]

(* the last name typed before the first name *)
FillOrderLastNameFirst ==
    <<Ev("fill", 0, "lastName"), Ev("fill", 1, "firstName"),
      Ev("fill", 2, "email")>>

(* lines 402-409: inputs[0], inputs[1], inputs[2] *)
FillOrder ==
    <<Ev("fill", 0, "firstName"), Ev("fill", 1, "lastName"),
      Ev("fill", 2, "email")>>

(* the error of every attempt replaced by the first one *)
KeepFirstError(old, new) == IF old = NoError THEN new ELSE old

(* line 322: last_error = e *)
KeepError(old, new) == new

(* a wait without a signal raises out of the attempt *)
ConfirmRaisesOnTimeout(sig) == ~sig

(* lines 437-445: whatever the wait for a signal raises is swallowed *)
ConfirmRaises(sig) == FALSE

(* the loop goes on after an attempt that returned *)
AfterSingleReturnsRetries == "probe"

(* line 319: return self._fill_form_single(...) leaves fill_form *)
AfterSingleReturns == "filled"

(* a caller calls fill_form(student) on automator 0 *)
FillCall(t) ==
    /\ mpc = "fill"
    /\ tpc[t] = "queued"
    /\ EnterFillForm(t, 0)
    /\ tpc' = [tpc EXCEPT ![t] = "attempt"]
    /\ submit_clicks' = 0
    /\ last_error' = NoError
    /\ UNCHANGED <<batchInputs, callVars, launchVars, sheetVars, csvVars,
                   storeVars, seqVars, poolVars, mpc, driver, forms,
                   screenshots, captures, step, page_log, signal, error_msg>>

(* what a step of the steps below leaves alone *)
SingleFrame ==
    UNCHANGED <<batchInputs, callVars, launchVars, sheetVars, csvVars,
                storeVars, seqVars, poolVars, mpc, attempt, auto, screenshots,
                captures, error_msg>>

(* An exception leaves _fill_form_single at the step `at` (line 463) and *)
(* is caught at line 321; the session may have stopped responding.       *)
SingleRaises(t, at) ==
    /\ \E d \in {driver[auto[t]], "dead"} :
          /\ driver[auto[t]] # "live" => d = driver[auto[t]]
          /\ driver' = [driver EXCEPT ![auto[t]] = d]
    /\ last_error' = KeepError(last_error, [attempt |-> attempt[t], at |-> at])
    /\ step' = "none"
    /\ tpc' = [tpc EXCEPT ![t] = AfterFailure(attempt[t])]

(* the step of the attempt can go well: the session responds *)
Responds(t) == driver[auto[t]] = "live"

(* the step of the attempt can go wrong *)
CanFail(t) == t \in faulty \/ driver[auto[t]] # "live"

(* lines 313-319 and 361-376: the backoff sleep, then the attempt starts *)
SingleBegin(t) ==
    /\ mpc = "fill"
    /\ tpc[t] = "attempt"
    /\ delays' = [delays EXCEPT ![t] = SleptBefore(t)]
    /\ calls' = [calls EXCEPT ![t] = @ + 1]
    /\ tpc' = [tpc EXCEPT ![t] = "single"]
    /\ step' = "navigate"
    /\ UNCHANGED <<driver, forms, ret, page_log, submit_clicks, signal, last_error>>
    /\ SingleFrame

(* lines 379-384: driver.get loads a fresh page, the wait for readyState *)
SingleNavigate(t) ==
    /\ tpc[t] = "single"
    /\ step = "navigate"
    /\ \/ /\ Responds(t)
          /\ page_log' = <<Ev("get", 0, "certificationLink")>>
          /\ step' = "inputs"
          /\ UNCHANGED <<driver, tpc, last_error>>
       \/ /\ CanFail(t)
          /\ SingleRaises(t, "navigate")
          /\ UNCHANGED page_log
    /\ UNCHANGED <<forms, calls, delays, ret, submit_clicks, signal>>
    /\ SingleFrame

(* lines 387-399: the text inputs are waited for; fewer than 3 raises *)
SingleInputs(t) ==
    /\ tpc[t] = "single"
    /\ step = "inputs"
    /\ \/ /\ Responds(t)
          /\ \E n \in 1..MaxInputs :
                IF n < 3
                THEN /\ SingleRaises(t, "inputs")
                     /\ UNCHANGED page_log
                ELSE /\ page_log' = Append(page_log, Ev("inputs", n, ""))
                     /\ step' = "fill"
                     /\ UNCHANGED <<driver, tpc, last_error>>
       \/ /\ CanFail(t)
          /\ SingleRaises(t, "inputs")
          /\ UNCHANGED page_log
    /\ UNCHANGED <<forms, calls, delays, ret, submit_clicks, signal>>
    /\ SingleFrame

(* lines 402-409: the three fields are typed; k of them before an error *)
SingleFill(t) ==
    /\ tpc[t] = "single"
    /\ step = "fill"
    /\ \/ /\ Responds(t)
          /\ page_log' = page_log \o FillOrder
          /\ step' = "radio"
          /\ UNCHANGED <<driver, tpc, last_error>>
       \/ /\ CanFail(t)
          /\ \E k \in 0..2 : page_log' = page_log \o SubSeq(FillOrder, 1, k)
          /\ SingleRaises(t, "fill")
    /\ UNCHANGED <<forms, calls, delays, ret, submit_clicks, signal>>
    /\ SingleFrame

(* lines 412-425: the radio of the badge choice is waited for and clicked *)
SingleRadio(t) ==
    /\ tpc[t] = "single"
    /\ step = "radio"
    /\ \/ /\ Responds(t)
          /\ page_log' = Append(page_log, Ev("radio", 0, "badgeOptIn"))
          /\ step' = "submit"
          /\ UNCHANGED <<driver, tpc, last_error>>
       \/ /\ CanFail(t)
          /\ SingleRaises(t, "radio")
          /\ UNCHANGED page_log
    /\ UNCHANGED <<forms, calls, delays, ret, submit_clicks, signal>>
    /\ SingleFrame

(* lines 428-433: the Submit button is waited for and clicked *)
SingleSubmit(t) ==
    /\ tpc[t] = "single"
    /\ step = "submit"
    /\ \/ /\ Responds(t)
          /\ page_log' = Append(page_log, Ev("submit", 0, ""))
          /\ submit_clicks' = submit_clicks + 1
          /\ step' = "confirm"
          /\ UNCHANGED <<driver, tpc, last_error>>
       \/ /\ CanFail(t)
          /\ SingleRaises(t, "submit")
          /\ UNCHANGED <<page_log, submit_clicks>>
    /\ UNCHANGED <<forms, calls, delays, ret, signal>>
    /\ SingleFrame

(* Lines 435-459: the wait for a submission signal, seen or not; the      *)
(* counter is incremented and Success is returned.                        *)
SingleConfirm(t) ==
    /\ tpc[t] = "single"
    /\ step = "confirm"
    /\ \E sig \in BOOLEAN :
          /\ sig => Responds(t)
          /\ signal' = IF sig THEN "seen" ELSE "absent"
          /\ IF ConfirmRaises(sig)
             THEN /\ SingleRaises(t, "confirm")
                  /\ UNCHANGED <<forms, ret>>
             ELSE /\ forms' = [forms EXCEPT ![auto[t]] = @ + 1]
                  /\ ret' = [ret EXCEPT ![t] = SuccessOutcome(t)]
                  /\ tpc' = [tpc EXCEPT ![t] = AfterSingleReturns]
                  /\ step' = "none"
                  /\ UNCHANGED <<driver, last_error>>
    /\ UNCHANGED <<calls, delays, page_log, submit_clicks>>
    /\ SingleFrame

(* lines 327-335: the probe and the relaunch between two attempts *)
SingleProbe(t) ==
    /\ mpc = "fill"
    /\ \/ ProbeAlive(t)
       \/ ProbeDead(t)
       \/ RelaunchOk(t)
       \/ RelaunchFails(t)
    /\ UNCHANGED <<inputVars, storeVars, seqVars, poolVars, mpc>>

(* lines 337-357: the Failed outcome carries str(last_error) *)
SingleExhausted(t) ==
    /\ mpc = "fill"
    /\ Exhausted(t)
    /\ error_msg' = last_error
    /\ UNCHANGED <<batchInputs, callVars, launchVars, sheetVars, csvVars,
                   storeVars, seqVars, poolVars, mpc, step, page_log,
                   submit_clicks, signal, last_error>>

(* ---------------------- checkpoint / results store -------------------- *)

(* How a write to a file of the checkpoint directory can end: open()     *)
(* raises; a write raises once the io buffer is flushed to a failing     *)
(* disk; every write is buffered and the close at the end of the with    *)
(* block raises.                                                         *)
IoFaults == {"open_fails", "write_fails", "close_fails"}

IoOutcomes == {"ok"} \cup IoFaults

(* the buffer appended to the file and kept *)
SaveResultsIncrementalKeeps(buf, file) ==
    IF buf = EmptyBag
    THEN [buf |-> buf, file |-> file]
    ELSE [buf |-> buf,
          file |-> [exists |-> TRUE, rows |-> file.rows (+) buf]]

(* save_results_incremental: append the buffer to the file, clear it *)
SaveResultsIncremental(buf, file) ==
    IF buf = EmptyBag
    THEN [buf |-> buf, file |-> file]
    ELSE [buf |-> EmptyBag,
          file |-> [exists |-> TRUE, rows |-> file.rows (+) buf]]

(* save_checkpoint(processed_count, total_count, save_results) *)
SaveCheckpoint(p, n, save, buf, file) ==
    LET flushed == IF save THEN SaveResultsIncremental(buf, file)
                   ELSE [buf |-> buf, file |-> file]
    IN  [checkpoint |-> [exists |-> TRUE, processed_count |-> p,
                         total_count |-> n,
                         results_count |-> BagCardinality(buf)],
         buf |-> flushed.buf, file |-> flushed.file]

(* save_results: overwrite the file from the buffer, copy it to a snapshot *)
SaveResults(buf, file, snaps) ==
    IF buf = EmptyBag
    THEN [file |-> file, snapshots |-> snaps]
    ELSE [file |-> [exists |-> TRUE, rows |-> buf], snapshots |-> snaps + 1]

(* os.remove(results_file) when it exists *)
RemoveFile(file) == NoFile

(* "Save checkpoint every 50": i % 50 == 0 *)
CheckpointDue(i) == i % CheckpointInterval = 0

(* how the writes of one save_checkpoint or save_results call end: the   *)
(* write of progress.json and the write of results.csv                   *)
NoFault == [checkpoint |-> "ok", results |-> "ok"]

IoChoices == IF io_faulty THEN [checkpoint : IoOutcomes, results : IoOutcomes]
             ELSE {NoFault}

(* the error of a failed write leaves the function that made it *)
SaveRaisesOnFault(io) == io # "ok"

(* lines 490, 520, 542: except Exception catches whatever the body       *)
(* raised and logs it; nothing leaves the function                      *)
SaveRaises(io) == FALSE

(* progress.json opened for writing and left without its content *)
TruncatedCheckpoint == [exists |-> TRUE, processed_count |-> 0,
                        total_count |-> 0, results_count |-> 0]

(* results.csv opened, which creates it, and nothing more written to it *)
Opened(file) == [exists |-> TRUE, rows |-> file.rows]

(* save_results_incremental when its write ends as io does: the buffer   *)
(* is kept unless line 519 was reached; a failure is logged             *)
SaveResultsIncrementalIo(io, buf, file) ==
    IF buf = EmptyBag \/ io = "ok"
    THEN [buf |-> SaveResultsIncremental(buf, file).buf,
          file |-> SaveResultsIncremental(buf, file).file,
          warnings |-> 0, raised |-> FALSE]
    ELSE [buf |-> IF io = "close_fails" THEN EmptyBag ELSE buf,
          file |-> IF io = "open_fails" THEN file ELSE Opened(file),
          warnings |-> 1, raised |-> SaveRaises(io)]

(* save_checkpoint when its writes end as io does: a failure on          *)
(* progress.json goes to the except clause of line 490, which skips the  *)
(* flush of lines 487-488                                                *)
SaveCheckpointIo(io, p, n, save, buf, file, cp) ==
    IF io.checkpoint = "ok"
    THEN LET flushed == IF save
                        THEN SaveResultsIncrementalIo(io.results, buf, file)
                        ELSE [buf |-> buf, file |-> file, warnings |-> 0,
                              raised |-> FALSE]
         IN  [checkpoint |-> SaveCheckpoint(p, n, FALSE, buf, file).checkpoint,
              buf |-> flushed.buf, file |-> flushed.file,
              warnings |-> flushed.warnings, raised |-> flushed.raised]
    ELSE [checkpoint |-> IF io.checkpoint = "open_fails" THEN cp
                         ELSE TruncatedCheckpoint,
          buf |-> buf, file |-> file, warnings |-> 1,
          raised |-> SaveRaises(io.checkpoint)]

(* save_results when its write ends as io does: opening the file for     *)
(* writing empties it; no copy is made after a failure                   *)
SaveResultsIo(io, buf, file, snaps) ==
    IF buf = EmptyBag \/ io = "ok"
    THEN [file |-> SaveResults(buf, file, snaps).file,
          snapshots |-> SaveResults(buf, file, snaps).snapshots,
          warnings |-> 0, raised |-> FALSE]
    ELSE [file |-> IF io = "open_fails" THEN file
                   ELSE [exists |-> TRUE, rows |-> EmptyBag],
          snapshots |-> snaps, warnings |-> 1, raised |-> SaveRaises(io)]

(* ------------------ results.csv, its lines in order -------------------- *)

(* no call has been made on the store yet *)
NoCall == [op |-> "none", p |-> 0, n |-> 0, save |-> FALSE, repeat |-> FALSE,
           added |-> 0]

(* the line writeheader() writes *)
Header == [task |-> 0, status |-> "header", message |-> "header"]

(* lines 511-516: the header is written when the file did not exist *)
CsvHeaderDue(exists) == ~exists

(* self.results.append(outcome) *)
CsvAppend ==
    /\ mpc = "csv"
    /\ ncalls < MaxCalls
    /\ \E t \in Tasks : \E o \in {SuccessOutcome(t), FailedOutcome(t)} :
          /\ buf_list' = Append(buf_list, o)
          /\ appended' = Append(appended, o)
    /\ last_call' = [NoCall EXCEPT !.op = "append"]
    /\ ncalls' = ncalls + 1
    /\ UNCHANGED <<batchInputs, launchVars, sheetVars, singleVars, fillVars,
                   storeVars, seqVars, poolVars, mpc, csv_lines, csv_exists>>

(* save_results_incremental(): nothing to do on an empty buffer (508).   *)
(* Line 512 opens the file in append mode, which creates it; the header  *)
(* (when due) and the buffered rows are written in order (515-518), of   *)
(* which n lines reach the file; line 519 clears the buffer inside the   *)
(* with block, before the file is closed; whatever is raised is logged   *)
(* (520-521).                                                            *)
CsvSaveIncremental ==
    /\ mpc = "csv"
    /\ ncalls < MaxCalls
    /\ IF buf_list = << >>
       THEN /\ last_call' = [NoCall EXCEPT !.op = "nothing_to_save"]
            /\ UNCHANGED <<buf_list, csv_lines, csv_exists>>
       ELSE LET lines == (IF CsvHeaderDue(csv_exists) THEN <<Header>>
                          ELSE << >>) \o buf_list
            IN  \E io \in IoOutcomes : \E n \in 0..Len(lines) :
                  /\ io = "ok" => n = Len(lines)
                  /\ io = "open_fails" => n = 0
                  /\ io \in {"write_fails", "close_fails"} => n < Len(lines)
                  /\ csv_exists' = (csv_exists \/ io # "open_fails")
                  /\ csv_lines' = csv_lines \o SubSeq(lines, 1, n)
                  /\ buf_list' = IF io \in {"ok", "close_fails"} THEN << >>
                                 ELSE buf_list
                  /\ last_call' = [NoCall EXCEPT !.op = io]
    /\ ncalls' = ncalls + 1
    /\ UNCHANGED <<batchInputs, launchVars, sheetVars, singleVars, fillVars,
                   storeVars, seqVars, poolVars, mpc, appended>>

(* ------------------ the store called by any caller -------------------- *)

(* the record of a call: repeat says that the call before it was the same *)
(* save_checkpoint(p, n) call, added counts the rows it put in the file   *)
Call(op, p, n, save, file) ==
    [op |-> op, p |-> p, n |-> n, save |-> save,
     repeat |-> /\ op = "save_checkpoint"
                /\ last_call.op = "save_checkpoint"
                /\ last_call.p = p /\ last_call.n = n
                /\ last_call.save /\ save,
     added |-> BagCardinality(file.rows) - BagCardinality(results_file.rows)]

(* self.results.append(outcome), as the sequential loop does at line 233 *)
StoreAppend ==
    /\ mpc = "store"
    /\ ncalls < MaxCalls
    /\ \E t \in Tasks : \E o \in {SuccessOutcome(t), FailedOutcome(t)} :
          self_results' = self_results (+) SetToBag({o})
    /\ last_call' = Call("append", 0, 0, FALSE, results_file)
    /\ ncalls' = ncalls + 1
    /\ UNCHANGED <<warnings, batchInputs, launchVars, sheetVars, detailVars,
                   fillVars, seqVars, poolVars, mpc, results_file, snapshots,
                   checkpoint>>

(* save_checkpoint(p, total_count, save) *)
StoreSaveCheckpoint ==
    /\ mpc = "store"
    /\ ncalls < MaxCalls
    /\ \E p \in 0..total_count : \E save \in BOOLEAN :
          LET s == SaveCheckpoint(p, total_count, save, self_results, results_file)
          IN  /\ checkpoint' = s.checkpoint
              /\ self_results' = s.buf
              /\ results_file' = s.file
              /\ last_call' = Call("save_checkpoint", p, total_count, save, s.file)
    /\ ncalls' = ncalls + 1
    /\ UNCHANGED <<warnings, batchInputs, launchVars, sheetVars, detailVars,
                   fillVars, seqVars, poolVars, mpc, snapshots>>

(* save_results_incremental() *)
StoreSaveIncremental ==
    /\ mpc = "store"
    /\ ncalls < MaxCalls
    /\ LET s == SaveResultsIncremental(self_results, results_file)
       IN  /\ self_results' = s.buf
           /\ results_file' = s.file
           /\ last_call' = Call("save_results_incremental", 0, 0, FALSE, s.file)
    /\ ncalls' = ncalls + 1
    /\ UNCHANGED <<warnings, batchInputs, launchVars, sheetVars, detailVars,
                   fillVars, seqVars, poolVars, mpc, snapshots, checkpoint>>

(* save_results() *)
StoreSaveResults ==
    /\ mpc = "store"
    /\ ncalls < MaxCalls
    /\ LET f == SaveResults(self_results, results_file, snapshots)
       IN  /\ results_file' = f.file
           /\ snapshots' = f.snapshots
           /\ last_call' = Call("save_results", 0, 0, FALSE, f.file)
    /\ ncalls' = ncalls + 1
    /\ UNCHANGED <<warnings, batchInputs, launchVars, sheetVars, detailVars,
                   fillVars, seqVars, poolVars, mpc, self_results, checkpoint>>

(* ------------------- run_automation, sequential path ------------------ *)

(* an item of result_queue: ('result', outcome), ('browser', name),       *)
(* ('done', None), ('error', text) or the bare string "STOP"              *)
QItem(kind, data) == [kind |-> kind, data |-> data]

(* the loop resumed after the tasks the checkpoint counts *)
FirstIndexResumed(cp) == IF cp.exists THEN cp.processed_count + 1 ELSE 1

(* line 208: enumerate(students, 1); load_checkpoint is never called *)
FirstIndex(cp) == 1

(* SASFormAutomator(...) launches the session; ('browser', name) is put   *)
(* and read_excel returns the tasks; the loop starts at its first index  *)
SeqStart ==
    /\ mpc = "start"
    /\ driver' = [driver EXCEPT ![0] = "live"]
    /\ result_queue' = Append(result_queue, QItem("browser", NoOutcome))
    /\ seq_i' = FirstIndex(checkpoint)
    /\ mpc' = "loop"
    /\ UNCHANGED <<inputVars, poolVars, storeVars, forms, tpc, attempt, auto, calls,
                   delays, ret, screenshots, captures, session_results, stop_pressed>>

(* the constructor raises: no browser can be launched *)
SeqStartFails ==
    /\ mpc = "start"
    /\ result_queue' = Append(result_queue, QItem("error", NoOutcome))
    /\ mpc' = "error"
    /\ UNCHANGED <<inputVars, poolVars, storeVars, fillVars, session_results, stop_pressed, seq_i>>

(* Lines 210-221: one item is taken from result_queue when it is not      *)
(* empty; "STOP" saves a checkpoint and returns, any other item is        *)
(* dropped; the bare except of line 220 would pass over anything raised.  *)
SeqStopCheck ==
    /\ mpc = "loop"
    /\ seq_i <= total_count
    /\ tpc[seq_i] = "queued"
    /\ IF result_queue # << >> /\ Head(result_queue).kind = "STOP"
       THEN \E io \in IoChoices :
              LET s == SaveCheckpointIo(io, seq_i - 1, total_count, TRUE,
                                        self_results, results_file, checkpoint)
              IN  /\ checkpoint' = s.checkpoint
                  /\ self_results' = s.buf
                  /\ results_file' = s.file
                  /\ warnings' = warnings + s.warnings
                  /\ IF s.raised
                     THEN /\ tpc' = [tpc EXCEPT ![seq_i] = "restart"]
                          /\ UNCHANGED <<driver, mpc>>
                     ELSE /\ driver' = [driver EXCEPT ![0] = Closed(@)]
                          /\ mpc' = "stopped"
                          /\ tpc' = tpc
       ELSE /\ tpc' = [tpc EXCEPT ![seq_i] = "restart"]
            /\ UNCHANGED <<checkpoint, self_results, results_file, warnings,
                           driver, mpc>>
    /\ result_queue' = IF result_queue # << >> THEN Tail(result_queue)
                       ELSE result_queue
    /\ UNCHANGED <<inputVars, poolVars, snapshots, forms, attempt, auto, calls, delays,
                   ret, screenshots, captures, session_results, stop_pressed, seq_i>>

(* the session restarted one form late *)
RestartDueAfter(n, interval) == n > interval

(* line 547: forms_processed_since_restart >= restart_browser_interval *)
RestartDue(n, interval) == n >= interval

(* restart_browser_if_needed, then fill_form is entered; launched = FALSE *)
(* is setup_driver raising, which ends run_automation                     *)
SeqRestartIfNeeded ==
    /\ mpc = "loop"
    /\ seq_i <= total_count
    /\ tpc[seq_i] = "restart"
    /\ IF RestartDue(forms[0], RestartIntervalSeq)
       THEN \E launched \in BOOLEAN :
              IF launched
              THEN /\ driver' = [driver EXCEPT ![0] = "live"]
                   /\ forms' = [forms EXCEPT ![0] = 0]
                   /\ tpc' = [tpc EXCEPT ![seq_i] = "attempt"]
                   /\ UNCHANGED <<mpc, result_queue>>
              ELSE /\ driver' = [driver EXCEPT ![0] = Closed(@)]
                   /\ result_queue' = Append(result_queue, QItem("error", NoOutcome))
                   /\ mpc' = "error"
                   /\ UNCHANGED <<forms, tpc>>
       ELSE /\ tpc' = [tpc EXCEPT ![seq_i] = "attempt"]
            /\ UNCHANGED <<driver, forms, mpc, result_queue>>
    /\ EnterFillForm(seq_i, 0)
    /\ UNCHANGED <<inputVars, poolVars, storeVars, screenshots, captures, session_results, stop_pressed, seq_i>>

(* Lines 229-242: the outcome is queued and appended to automator.results; *)
(* every 50th task saves a checkpoint, which flushes the buffer            *)
SeqAfterFill ==
    /\ mpc = "loop"
    /\ seq_i <= total_count
    /\ tpc[seq_i] = "filled"
    /\ result_queue' = Append(result_queue, QItem("result", ret[seq_i]))
    /\ LET buf == self_results (+) SetToBag({ret[seq_i]})
       IN  IF CheckpointDue(seq_i)
           THEN \E io \in IoChoices :
                  LET s == SaveCheckpointIo(io, seq_i, total_count, TRUE, buf,
                                            results_file, checkpoint)
                  IN  /\ checkpoint' = s.checkpoint
                      /\ self_results' = s.buf
                      /\ results_file' = s.file
                      /\ warnings' = warnings + s.warnings
                      /\ mpc' = IF s.raised THEN "error" ELSE mpc
           ELSE /\ self_results' = buf
                /\ UNCHANGED <<checkpoint, results_file, warnings, mpc>>
    /\ tpc' = [tpc EXCEPT ![seq_i] = "done"]
    /\ attempt' = [attempt EXCEPT ![seq_i] = 0]
    /\ calls' = [calls EXCEPT ![seq_i] = 0]
    /\ delays' = [delays EXCEPT ![seq_i] = << >>]
    /\ ret' = [ret EXCEPT ![seq_i] = NoOutcome]
    /\ seq_i' = seq_i + 1
    /\ UNCHANGED <<inputVars, poolVars, snapshots, driver, forms, auto, screenshots, captures,
                   session_results, stop_pressed>>

(* an exception leaves fill_form: lines 252-259 report the error and      *)
(* close the session                                                      *)
SeqFillRaised ==
    /\ mpc = "loop"
    /\ seq_i <= total_count
    /\ tpc[seq_i] = "fill_raised"
    /\ result_queue' = Append(result_queue, QItem("error", NoOutcome))
    /\ driver' = [driver EXCEPT ![0] = Closed(@)]
    /\ mpc' = "error"
    /\ UNCHANGED <<inputVars, poolVars, storeVars, forms, tpc, attempt, auto, calls,
                   delays, ret, screenshots, captures, session_results, stop_pressed, seq_i>>

(* Lines 244-259: the final save after the loop, then ('done', None) *)
SeqFinalSave ==
    /\ mpc = "loop"
    /\ seq_i > total_count
    /\ \E io \in IoChoices : \E io2 \in IoChoices :
          LET s == SaveCheckpointIo(io, total_count, total_count, TRUE,
                                    self_results, RemoveFile(results_file),
                                    checkpoint)
              f == SaveResultsIo(io2.results, s.buf, s.file, snapshots)
              raised == s.raised \/ f.raised
          IN  /\ checkpoint' = s.checkpoint
              /\ self_results' = s.buf
              /\ results_file' = f.file
              /\ snapshots' = f.snapshots
              /\ warnings' = warnings + s.warnings + f.warnings
              /\ result_queue' = Append(result_queue,
                                        QItem(IF raised THEN "error" ELSE "done",
                                              NoOutcome))
              /\ mpc' = IF raised THEN "error" ELSE "done"
    /\ driver' = [driver EXCEPT ![0] = Closed(@)]
    /\ UNCHANGED <<inputVars, poolVars, forms, tpc, attempt, auto, calls, delays, ret,
                   screenshots, captures, session_results, stop_pressed, seq_i>>

(* ------------------------------ the page ------------------------------ *)

Running == mpc \in {"start", "loop"}

(* Stop button, sequential run: "STOP" is put on result_queue *)
PressStopSeq ==
    /\ Running
    /\ ~stop_pressed
    /\ stop_pressed' = TRUE
    /\ result_queue' = Append(result_queue, QItem("STOP", NoOutcome))
    /\ UNCHANGED <<inputVars, poolVars, storeVars, fillVars, session_results, mpc,
                   seq_i>>

(* the outcomes carried by the ('result', outcome) items of a queue *)
RECURSIVE ResultItems(_)
ResultItems(q) ==
    IF q = << >> THEN EmptyBag
    ELSE IF Head(q).kind = "result"
         THEN SetToBag({Head(q).data}) (+) ResultItems(Tail(q))
         ELSE ResultItems(Tail(q))

(* Lines 304-319: a rerun of the page empties result_queue; the outcomes  *)
(* of its 'result' items are appended to st.session_state.results         *)
DrainResultQueue ==
    /\ result_queue # << >>
    /\ session_results' = session_results (+) ResultItems(result_queue)
    /\ result_queue' = << >>
    /\ UNCHANGED <<inputVars, poolVars, storeVars, fillVars, stop_pressed, mpc, seq_i>>

(* ----------------------------- setup_driver --------------------------- *)

(* the engines in the order the branches of the loop body are written *)
BrowsersToTryBranchOrder(choice) ==
    IF choice = "auto" THEN <<"chrome", "firefox", "edge">> ELSE <<choice>>

(* browsers_to_try, lines 74-77 *)
BrowsersToTry(choice) ==
    IF choice = "auto" THEN <<"chrome", "edge", "firefox">> ELSE <<choice>>

(* self.browser_name as the branch of the engine sets it *)
EngineName(b) ==
    CASE b = "chrome" -> "Chrome"
      [] b = "edge" -> "Edge"
      [] b = "firefox" -> "Firefox"

(* One pass of the loop at line 81, in the constructor run_automation     *)
(* calls: the next engine is tried; when it launches, setup_driver        *)
(* returns, otherwise the exception is kept and the loop goes on.         *)
TryEngine ==
    /\ mpc = "setup"
    /\ Len(tried) < Len(BrowsersToTry(browser_choice))
    /\ LET b == BrowsersToTry(browser_choice)[Len(tried) + 1]
       IN  /\ tried' = Append(tried, b)
           /\ IF b \in launchable
              THEN /\ driver' = [driver EXCEPT ![0] = "live"]
                   /\ browser_name' = EngineName(b)
                   /\ mpc' = "constructed"
              ELSE UNCHANGED <<driver, browser_name, mpc>>
    /\ UNCHANGED <<batchInputs, callVars, sheetVars, detailVars, browser_choice,
                   launchable,
                   poolVars, storeVars, seqVars, forms, tpc, attempt, auto,
                   calls, delays, ret, screenshots, captures>>

(* Lines 179-181: every engine tried has failed, setup_driver raises; the *)
(* constructor raises and run_automation reports the error (252-259)      *)
SetupFails ==
    /\ mpc = "setup"
    /\ Len(tried) = Len(BrowsersToTry(browser_choice))
    /\ result_queue' = Append(result_queue, QItem("error", NoOutcome))
    /\ mpc' = "error"
    /\ UNCHANGED <<inputVars, poolVars, storeVars, fillVars, session_results,
                   stop_pressed, seq_i>>

(* ----------------------------- close_driver --------------------------- *)

(* what quit() raised leaves close_driver *)
CloseRaisesWhenQuitRaises(quit_raised) == quit_raised

(* lines 467-472: the bare except passes over whatever quit() or the log *)
(* call raised                                                           *)
CloseRaises(quit_raised) == FALSE

(* the frame of the steps on the session of automator 0 *)
CloseFrame ==
    UNCHANGED <<batchInputs, sheetVars, detailVars, launchVars, poolVars,
                storeVars, seqVars, forms, tpc, attempt, auto, calls, delays,
                ret, screenshots, captures>>

(* the session of the constructed automator stops responding *)
SessionDies ==
    /\ mpc = "constructed"
    /\ driver[0] = "live"
    /\ driver' = [driver EXCEPT ![0] = "dead"]
    /\ UNCHANGED <<mpc, callVars>>
    /\ CloseFrame

(* close_driver(): quit() is called when self.driver is set, also on a   *)
(* session that was closed before, since self.driver is never reset; it  *)
(* may raise on any session                                              *)
CloseCall(after) ==
    /\ ncalls < MaxCalls
    /\ \E quit_raised \in BOOLEAN :
          /\ quit_raised => driver[0] # "none"
          /\ driver' = [driver EXCEPT ![0] = Closed(@)]
          /\ last_call' = [NoCall EXCEPT !.op = IF quit_raised THEN "quit_raised"
                                                ELSE "close_driver"]
          /\ mpc' = IF CloseRaises(quit_raised) THEN "close_raised" ELSE after
    /\ ncalls' = ncalls + 1
    /\ CloseFrame

(* close_driver called on the constructed automator, as the finally      *)
(* clause of run_automation does (line 257)                              *)
CloseDriver ==
    /\ mpc = "constructed"
    /\ CloseCall("constructed")

(* __del__ (676-678) calls close_driver: on the automator whose          *)
(* constructor raised, which never had a session, or on the constructed  *)
(* one when it is collected                                              *)
Del ==
    /\ mpc \in {"constructed", "error"}
    /\ CloseCall("deleted")

(* ------------------------------ read_excel ---------------------------- *)

Fields == {"firstName", "lastName", "email", "certificationName",
           "certificationLink", "badgeOptIn"}

(* A cell of the sheet is blank or holds a text: l spaces, a core without *)
(* leading or trailing space, r spaces (a text of spaces only: core "",   *)
(* r = 0).                                                                *)
Blank == [kind |-> "blank", l |-> 0, core |-> "", r |-> 0]
Text(l, core, r) == [kind |-> "text", l |-> l, core |-> core, r |-> r]

(* the values the two readers hand to the code for a blank cell *)
NaN == [kind |-> "nan", l |-> 0, core |-> "", r |-> 0]
None == [kind |-> "none", l |-> 0, core |-> "", r |-> 0]

(* row.get(col) of the pandas row: a blank cell, and a cell holding the  *)
(* empty text, are read as NaN                                           *)
PandasValue(c) ==
    IF c.kind = "blank" \/ (c.l = 0 /\ c.core = "" /\ c.r = 0) THEN NaN ELSE c

(* row[col] of the openpyxl row: a blank cell is read as None *)
OpenpyxlValue(c) == IF c.kind = "blank" THEN None ELSE c

(* str(v) *)
Str(v) ==
    CASE v.kind = "nan" -> Text(0, "nan", 0)
      [] v.kind = "none" -> Text(0, "None", 0)
      [] OTHER -> v

(* s.strip() of a text, as the string of its core *)
Strip(v) == v.core

(* s.lower() on the strings of the cells explored *)
Lower(s) ==
    CASE s = "Y" -> "y"
      [] s = "TRUE" -> "true"
      [] s = "Yes" -> "yes"
      [] s = "OK" -> "ok"
      [] s = "None" -> "none"
      [] s = "NO" -> "no"
      [] OTHER -> s

(* bool(v): None and the empty string are false *)
Truthy(v) ==
    /\ v.kind = "text"
    /\ ~(v.l = 0 /\ v.core = "" /\ v.r = 0)

(* raw_badge in [None, "", " ", "None", "none"] *)
InBlankList(v) ==
    \/ v.kind = "none"
    \/ /\ v.kind = "text"
       /\ v.r = 0
       /\ \/ v.core = "" /\ v.l <= 1
          \/ v.l = 0 /\ v.core \in {"None", "none"}

(* lines 227-231 and 290-294: badge_final *)
BadgeFinal(v) ==
    IF v.kind = "nan" \/ InBlankList(v) THEN "yes"
    ELSE IF Lower(Strip(Str(v))) \in {"yes", "y", "1", "true", "ok"}
         THEN "yes" ELSE "no"

(* lines 219-223: a field of the row, or the default when the sheet has  *)
(* no such column                                                        *)
PandasField(sh, row, f, default) ==
    IF f \in sh.cols THEN Strip(Str(PandasValue(row[f]))) ELSE default

(* row.isna().all() *)
PandasAllBlank(sh, row) == \A f \in sh.cols : row[f].kind = "blank"

(* the task record of lines 237-244 *)
PandasRecord(sh, row) ==
    [firstName |-> PandasField(sh, row, "firstName", "Unknown"),
     lastName |-> PandasField(sh, row, "lastName", "User"),
     email |-> PandasField(sh, row, "email", "noemail@example.com"),
     certificationName |-> PandasField(sh, row, "certificationName", ""),
     certificationLink |-> PandasField(sh, row, "certificationLink", ""),
     badgeOptIn |-> BadgeFinal(IF "badgeOptIn" \in sh.cols
                               THEN PandasValue(row["badgeOptIn"]) ELSE None)]

(* lines 215 and 233: the rows the loop skips *)
PandasSkips(sh, row) ==
    \/ PandasAllBlank(sh, row)
    \/ PandasRecord(sh, row).certificationLink \in {"", "nan"}

(* the rows with a blank first name skipped as well *)
RECURSIVE PandasRowsNamed(_, _)
PandasRowsNamed(sh, rows) ==
    IF rows = << >> THEN << >>
    ELSE (IF PandasSkips(sh, Head(rows)) \/ Head(rows)["firstName"].kind = "blank"
          THEN << >> ELSE <<PandasRecord(sh, Head(rows))>>)
         \o PandasRowsNamed(sh, Tail(rows))

(* the loop of lines 213-245 *)
RECURSIVE PandasRows(_, _)
PandasRows(sh, rows) ==
    IF rows = << >> THEN << >>
    ELSE (IF PandasSkips(sh, Head(rows)) THEN << >>
          ELSE <<PandasRecord(sh, Head(rows))>>)
         \o PandasRows(sh, Tail(rows))

(* lines 284-288: a field of the row, or the default when the column is  *)
(* absent or the cell is None or empty                                   *)
OpenpyxlField(sh, row, f, default) ==
    IF f \in sh.cols /\ Truthy(OpenpyxlValue(row[f]))
    THEN Strip(Str(OpenpyxlValue(row[f]))) ELSE default

(* the task record of lines 297-304 *)
OpenpyxlRecord(sh, row) ==
    [firstName |-> OpenpyxlField(sh, row, "firstName", "Unknown"),
     lastName |-> OpenpyxlField(sh, row, "lastName", "User"),
     email |-> OpenpyxlField(sh, row, "email", "noemail@example.com"),
     certificationName |-> OpenpyxlField(sh, row, "certificationName", ""),
     certificationLink |-> OpenpyxlField(sh, row, "certificationLink", ""),
     badgeOptIn |-> BadgeFinal(IF "badgeOptIn" \in sh.cols
                               THEN OpenpyxlValue(row["badgeOptIn"]) ELSE None)]

(* lines 282 and 295: the rows the fallback skips *)
OpenpyxlSkips(sh, row) ==
    \/ \A f \in sh.cols : row[f].kind = "blank"
    \/ OpenpyxlRecord(sh, row).certificationLink = ""

(* the loop of lines 281-304 *)
RECURSIVE OpenpyxlRows(_, _)
OpenpyxlRows(sh, rows) ==
    IF rows = << >> THEN << >>
    ELSE (IF OpenpyxlSkips(sh, Head(rows)) THEN << >>
          ELSE <<OpenpyxlRecord(sh, Head(rows))>>)
         \o OpenpyxlRows(sh, Tail(rows))

(* read_excel: the pandas reader, the openpyxl reader when the first one *)
(* raises, the empty list when both raise (line 257)                     *)
ReadExcelResult(how, sh) ==
    CASE how = "ok" -> PandasRows(sh, sh.rows)
      [] how = "pandas_fails" -> OpenpyxlRows(sh, sh.rows)
      [] OTHER -> << >>

(* run_automation, lines 165-168: ('browser', name) is put, read_excel    *)
(* returns the task records and the batch is about to start              *)
ReadExcel ==
    /\ mpc = "constructed"
    /\ result_queue' = Append(result_queue, QItem("browser", NoOutcome))
    /\ students' = ReadExcelResult(excel, sheet)
    /\ total_count' = Len(students')
    /\ no_email' = ("email" \notin sheet.cols)
    /\ driver' = [a \in 0..total_count' |-> IF a = 0 THEN driver[0] ELSE "none"]
    /\ forms' = [a \in 0..total_count' |-> 0]
    /\ tpc' = [t \in 1..total_count' |-> "queued"]
    /\ attempt' = [t \in 1..total_count' |-> 0]
    /\ auto' = [t \in 1..total_count' |-> 0]
    /\ calls' = [t \in 1..total_count' |-> 0]
    /\ delays' = [t \in 1..total_count' |-> << >>]
    /\ ret' = [t \in 1..total_count' |-> NoOutcome]
    /\ mpc' = "loop"
    /\ UNCHANGED <<num_workers, faulty, bad_callbacks, io_faulty, callVars,
                   launchVars,
                   detailVars,
                   excel, sheet, poolVars, storeVars, screenshots, captures,
                   session_results, stop_pressed, seq_i>>

(* --------------------- process_students_parallel --------------------- *)

(* i % num_workers for the 0-based index i = t - 1 of task t *)
SlotOf(t) == (t - 1) % num_workers

(* the positions at which a pool thread is executing the task function *)
TaskRunning(t) ==
    tpc[t] \in {"construct", "assign", "return", "attempt", "probe",
                "relaunch", "exhausted", "filled", "locked", "callbacks",
                "fill_raised", "handler", "handler_locked"}

(* the positions at which the task's local worker_automator is bound *)
HoldsAutomator(t) ==
    tpc[t] \in {"attempt", "probe", "relaunch", "exhausted", "filled", "locked",
                "callbacks", "fill_raised", "handler", "handler_locked"}

WorkerErrorOutcome(t) ==
    [task |-> t, status |-> "Failed", message |-> "Worker error"]

(* executor.submit for the next task of the comprehension at line 637 *)
Submit ==
    /\ mpc = "submit"
    /\ submitted' = submitted + 1
    /\ mpc' = IF submitted' = total_count THEN "collect" ELSE "submit"
    /\ UNCHANGED <<inputVars, fillVars, storeVars, seqVars, browser_pool, lock,
                   processed_count, results, unyielded_ok, unyielded_exc,
                   yielded, stop_flag, shutdown, exc_pending, running_at_cancel>>

(* A pool thread takes the oldest work item: at most num_workers threads, *)
(* items taken in submission order, none once the queue was cancelled.    *)
(* The task function starts with get_worker_automator's test at line 577, *)
(* worker_id not in browser_pool.                                         *)
PoolStart(t) ==
    /\ tpc[t] = "queued"
    /\ t <= submitted
    /\ ~shutdown
    /\ \A u \in 1..(t - 1) : tpc[u] # "queued"
    /\ Cardinality({u \in Tasks : TaskRunning(u)}) < num_workers
    /\ tpc' = [tpc EXCEPT ![t] =
                 IF browser_pool[SlotOf(t)] = 0 THEN "construct" ELSE "return"]
    /\ UNCHANGED <<inputVars, storeVars, seqVars, poolVars, mpc, driver, forms,
                   attempt, auto, calls, delays, ret, screenshots, captures>>

(* SASFormAutomator(...) at line 578 launches the slot's session *)
PoolConstruct(t) ==
    /\ tpc[t] = "construct"
    /\ driver' = [driver EXCEPT ![t] = "live"]
    /\ tpc' = [tpc EXCEPT ![t] = "assign"]
    /\ UNCHANGED <<inputVars, storeVars, seqVars, poolVars, mpc, forms,
                   attempt, auto, calls, delays, ret, screenshots, captures>>

(* the constructor raises: get_worker_automator is called outside the try *)
(* of process_single_student, so the exception ends up in the future       *)
PoolConstructFails(t) ==
    /\ tpc[t] = "construct"
    /\ t \in faulty
    /\ tpc' = [tpc EXCEPT ![t] = "raised"]
    /\ unyielded_exc' = unyielded_exc + 1
    /\ UNCHANGED <<inputVars, storeVars, seqVars, mpc, driver, forms, attempt,
                   auto, calls, delays, ret, screenshots, captures, browser_pool, lock,
                   processed_count, results, submitted, unyielded_ok, yielded,
                   stop_flag, shutdown, exc_pending, running_at_cancel>>

(* browser_pool[worker_id] = the new automator *)
PoolAssign(t) ==
    /\ tpc[t] = "assign"
    /\ browser_pool' = [browser_pool EXCEPT ![SlotOf(t)] = t]
    /\ tpc' = [tpc EXCEPT ![t] = "return"]
    /\ UNCHANGED <<inputVars, storeVars, seqVars, mpc, driver, forms, attempt,
                   auto, calls, delays, ret, screenshots, captures, lock,
                   processed_count, results, submitted, unyielded_ok,
                   unyielded_exc, yielded, stop_flag, shutdown, exc_pending,
                   running_at_cancel>>

(* return browser_pool[worker_id]; fill_form is entered on it (line 596) *)
PoolReturn(t) ==
    /\ tpc[t] = "return"
    /\ EnterFillForm(t, browser_pool[SlotOf(t)])
    /\ tpc' = [tpc EXCEPT ![t] = "attempt"]
    /\ UNCHANGED <<inputVars, storeVars, seqVars, poolVars, mpc, driver, forms,
                   screenshots, captures>>

PoolFillForm(t) ==
    /\ mpc \in {"submit", "collect", "exit_with"}
    /\ FillForm(t)
    /\ UNCHANGED <<inputVars, storeVars, seqVars, poolVars, mpc>>

(* with lock: (line 598) *)
PoolAcquire(t) ==
    /\ tpc[t] = "filled"
    /\ mpc \in {"submit", "collect", "exit_with"}
    /\ lock = 0
    /\ lock' = t
    /\ tpc' = [tpc EXCEPT ![t] = "locked"]
    /\ UNCHANGED <<inputVars, storeVars, seqVars, mpc, driver, forms, attempt,
                   auto, calls, delays, ret, screenshots, captures, browser_pool,
                   processed_count, results, submitted, unyielded_ok,
                   unyielded_exc, yielded, stop_flag, shutdown, exc_pending,
                   running_at_cancel>>

(* processed_count += 1; results.append(result) *)
PoolCount(t) ==
    /\ tpc[t] = "locked"
    /\ processed_count' = processed_count + 1
    /\ results' = results (+) SetToBag({ret[t]})
    /\ tpc' = [tpc EXCEPT ![t] = "callbacks"]
    /\ UNCHANGED <<inputVars, storeVars, seqVars, mpc, driver, forms, attempt,
                   auto, calls, delays, ret, screenshots, captures, browser_pool, lock,
                   submitted, unyielded_ok, unyielded_exc, yielded, stop_flag,
                   shutdown, exc_pending, running_at_cancel>>

(* the scratch state of a task whose function has returned *)
Finished(f, t, v) == [f EXCEPT ![t] = v]

(* Lines 602-617: the callbacks and the checkpoint, then the lock is      *)
(* released. raises = "before": a callback raises before the checkpoint;  *)
(* "after": the log callback of line 615 raises; both go to line 619.     *)
(* result_callback, when it returns, has put ('result', result) on        *)
(* result_queue.                                                          *)
PoolCallbacks(t) ==
    /\ tpc[t] = "callbacks"
    /\ \E raises \in {"no", "before", "after"} :
          /\ raises # "no" => bad_callbacks /\ t \in faulty
          /\ raises = "after" => CheckpointDue(processed_count)
          /\ checkpoint' =
                IF CheckpointDue(processed_count) /\ raises # "before"
                THEN SaveCheckpoint(processed_count, total_count, FALSE,
                                    self_results, results_file).checkpoint
                ELSE checkpoint
          /\ result_queue' = IF raises = "before" THEN result_queue
                             ELSE Append(result_queue, QItem("result", ret[t]))
          /\ tpc' = [tpc EXCEPT ![t] = IF raises = "no" THEN "done" ELSE "handler"]
          /\ unyielded_ok' = IF raises = "no" THEN unyielded_ok + 1
                             ELSE unyielded_ok
          /\ attempt' = IF raises = "no" THEN Finished(attempt, t, 0) ELSE attempt
          /\ auto' = IF raises = "no" THEN Finished(auto, t, 0) ELSE auto
          /\ calls' = IF raises = "no" THEN Finished(calls, t, 0) ELSE calls
          /\ delays' = IF raises = "no" THEN Finished(delays, t, << >>) ELSE delays
          /\ ret' = IF raises = "no" THEN Finished(ret, t, NoOutcome) ELSE ret
    /\ lock' = 0
    /\ UNCHANGED <<warnings, inputVars, session_results, stop_pressed, seq_i, mpc, driver,
                   forms, screenshots, captures,
                   self_results, results_file, snapshots, browser_pool,
                   processed_count, results, submitted, unyielded_exc, yielded,
                   stop_flag, shutdown, exc_pending, running_at_cancel>>

(* the except clause entered without waiting for the lock *)
PoolHandlerAcquireNoLock(t) ==
    /\ tpc[t] \in {"fill_raised", "handler"}
    /\ mpc \in {"submit", "collect", "exit_with"}
    /\ tpc' = [tpc EXCEPT ![t] = "handler_locked"]
    /\ UNCHANGED <<inputVars, storeVars, seqVars, mpc, driver, forms, attempt,
                   auto, calls, delays, ret, screenshots, captures, browser_pool,
                   lock, processed_count, results, submitted, unyielded_ok,
                   unyielded_exc, yielded, stop_flag, shutdown, exc_pending,
                   running_at_cancel>>

(* except Exception (line 619): with lock: *)
PoolHandlerAcquire(t) ==
    /\ tpc[t] \in {"fill_raised", "handler"}
    /\ mpc \in {"submit", "collect", "exit_with"}
    /\ lock = 0
    /\ lock' = t
    /\ tpc' = [tpc EXCEPT ![t] = "handler_locked"]
    /\ UNCHANGED <<inputVars, storeVars, seqVars, mpc, driver, forms, attempt,
                   auto, calls, delays, ret, screenshots, captures, browser_pool,
                   processed_count, results, submitted, unyielded_ok,
                   unyielded_exc, yielded, stop_flag, shutdown, exc_pending,
                   running_at_cancel>>

(* Lines 629-631: the error outcome is counted and appended, and returned *)
PoolHandlerAppend(t) ==
    /\ tpc[t] = "handler_locked"
    /\ processed_count' = processed_count + 1
    /\ results' = results (+) SetToBag({WorkerErrorOutcome(t)})
    /\ lock' = 0
    /\ tpc' = [tpc EXCEPT ![t] = "done"]
    /\ unyielded_ok' = unyielded_ok + 1
    /\ attempt' = Finished(attempt, t, 0)
    /\ auto' = Finished(auto, t, 0)
    /\ calls' = Finished(calls, t, 0)
    /\ delays' = Finished(delays, t, << >>)
    /\ ret' = Finished(ret, t, NoOutcome)
    /\ UNCHANGED <<inputVars, storeVars, seqVars, mpc, driver, forms,
                   screenshots, captures, browser_pool, submitted, unyielded_exc,
                   yielded, stop_flag, shutdown, exc_pending, running_at_cancel>>

(* the tasks a cancellation abandons: cancel_futures=True *)
Cancel(pcs) == [t \in DOMAIN pcs |-> IF pcs[t] = "queued" THEN "cancelled" ELSE pcs[t]]

(* Lines 643-648: as_completed yields a finished future and the stop flag *)
(* is set: the pending futures are cancelled and the loop is left         *)
CollectStop ==
    /\ mpc = "collect"
    /\ unyielded_ok + unyielded_exc > 0
    /\ stop_flag
    /\ shutdown' = TRUE
    /\ tpc' = Cancel(tpc)
    /\ running_at_cancel' = {t \in Tasks : TaskRunning(t)}
    /\ mpc' = "exit_with"
    /\ UNCHANGED <<inputVars, storeVars, seqVars, driver, forms, attempt, auto,
                   calls, delays, ret, screenshots, captures, browser_pool, lock,
                   processed_count, results, submitted, unyielded_ok,
                   unyielded_exc, yielded, stop_flag, exc_pending>>

(* where the loop goes after taking one more future *)
AfterYield(n) == IF n = total_count THEN "exit_with" ELSE "collect"

(* Lines 650-651: future.result() of a future that finished normally *)
CollectResult ==
    /\ mpc = "collect"
    /\ unyielded_ok > 0
    /\ ~stop_flag
    /\ unyielded_ok' = unyielded_ok - 1
    /\ yielded' = yielded + 1
    /\ mpc' = AfterYield(yielded')
    /\ UNCHANGED <<inputVars, fillVars, storeVars, seqVars, browser_pool, lock,
                   processed_count, results, submitted, unyielded_exc,
                   stop_flag, shutdown, exc_pending, running_at_cancel>>

(* Lines 652-654: future.result() raises the task's exception; the call   *)
(* log_callback(text, "ERROR") may raise itself (cb_raises), and that      *)
(* exception leaves the pool block                                        *)
CollectException ==
    /\ mpc = "collect"
    /\ unyielded_exc > 0
    /\ ~stop_flag
    /\ unyielded_exc' = unyielded_exc - 1
    /\ yielded' = yielded + 1
    /\ \E cb_raises \in BOOLEAN :
          /\ cb_raises => bad_callbacks
          /\ exc_pending' = cb_raises
          /\ mpc' = IF cb_raises THEN "exit_with" ELSE AfterYield(yielded')
    /\ UNCHANGED <<inputVars, fillVars, storeVars, seqVars, browser_pool, lock,
                   processed_count, results, submitted, unyielded_ok,
                   stop_flag, shutdown, running_at_cancel>>

(* ThreadPoolExecutor.__exit__: shutdown(wait=True) returns once every    *)
(* work item that was not cancelled has been run                          *)
ExitPool ==
    /\ mpc = "exit_with"
    /\ \A t \in Tasks : tpc[t] \in {"done", "raised", "cancelled"}
    /\ mpc' = "finally"
    /\ UNCHANGED <<inputVars, fillVars, storeVars, seqVars, poolVars>>

(* the automators the finally clause closes: browser_pool.values() *)
PoolAutomators == {browser_pool[w] : w \in DOMAIN browser_pool} \ {0}

(* Lines 655-661, then the exception, if any, leaves the function *)
Finally ==
    /\ mpc = "finally"
    /\ driver' = [a \in DOMAIN driver |->
                    IF a \in PoolAutomators THEN Closed(driver[a]) ELSE driver[a]]
    /\ mpc' = IF exc_pending THEN "raised" ELSE "final_save"
    /\ UNCHANGED <<inputVars, storeVars, seqVars, poolVars, forms, tpc, attempt,
                   auto, calls, delays, ret, screenshots, captures>>

(* Lines 663-674: the final save, and results is returned *)
FinalSave ==
    /\ mpc = "final_save"
    /\ LET s == SaveCheckpoint(processed_count, total_count, FALSE, results,
                               RemoveFile(results_file))
           f == SaveResults(s.buf, s.file, snapshots)
       IN  /\ checkpoint' = s.checkpoint
           /\ self_results' = s.buf
           /\ results_file' = f.file
           /\ snapshots' = f.snapshots
    /\ mpc' = "returned"
    /\ UNCHANGED <<warnings, inputVars, fillVars, seqVars, poolVars>>

(* some order of the outcomes of a list kept as a bag *)
RECURSIVE BagToSeq(_)
BagToSeq(b) ==
    IF b = EmptyBag THEN << >>
    ELSE LET o == CHOOSE x \in BagToSet(b) : TRUE
         IN  <<o>> \o BagToSeq(b (-) SetToBag({o}))

RECURSIVE ResultQItems(_)
ResultQItems(os) ==
    IF os = << >> THEN << >>
    ELSE <<QItem("result", Head(os))>> \o ResultQItems(Tail(os))

(* run_automation, lines 198-259: every returned outcome is put on        *)
(* result_queue, then ('done', None); the finally clause closes the       *)
(* session of automator 0                                                 *)
ParPutResults ==
    /\ mpc = "returned"
    /\ result_queue' = result_queue \o ResultQItems(BagToSeq(results))
                           \o <<QItem("done", NoOutcome)>>
    /\ driver' = [driver EXCEPT ![0] = Closed(@)]
    /\ mpc' = "done"
    /\ UNCHANGED <<inputVars, poolVars, storeVars, forms, tpc, attempt, auto, calls,
                   delays, ret, screenshots, captures, session_results,
                   stop_pressed, seq_i>>

(* run_automation, lines 252-259: process_students_parallel raised *)
ParRaised ==
    /\ mpc = "raised"
    /\ result_queue' = Append(result_queue, QItem("error", NoOutcome))
    /\ driver' = [driver EXCEPT ![0] = Closed(@)]
    /\ mpc' = "error"
    /\ UNCHANGED <<inputVars, poolVars, storeVars, forms, tpc, attempt, auto, calls,
                   delays, ret, screenshots, captures, session_results,
                   stop_pressed, seq_i>>

(* The Stop button while the pool runs: "STOP" is put on result_queue and *)
(* stop_flag_event.set() is called                                        *)
SetStopFlag ==
    /\ mpc \in {"submit", "collect"}
    /\ ~stop_flag
    /\ stop_flag' = TRUE
    /\ stop_pressed' = TRUE
    /\ result_queue' = Append(result_queue, QItem("STOP", NoOutcome))
    /\ UNCHANGED <<inputVars, fillVars, storeVars, session_results, seq_i, mpc,
                   browser_pool,
                   lock, processed_count, results, submitted, unyielded_ok,
                   unyielded_exc, yielded, shutdown, exc_pending,
                   running_at_cancel>>

(* An automator no longer referenced: it is not in browser_pool and no    *)
(* running task holds it.                                                 *)
Unreferenced(a) ==
    /\ a \notin PoolAutomators
    /\ tpc[a] # "assign"
    /\ \A t \in Tasks : HoldsAutomator(t) => auto[t] # a

(* __del__ (line 676) of an unreferenced automator: the interpreter runs  *)
(* it when it collects the object, which may be at any later time         *)
Finalize(a) ==
    /\ Unreferenced(a)
    /\ driver[a] \in {"live", "dead"}
    /\ driver' = [driver EXCEPT ![a] = Closed(@)]
    /\ UNCHANGED <<inputVars, storeVars, seqVars, poolVars, mpc, forms, tpc,
                   attempt, auto, calls, delays, ret, screenshots, captures>>

(* ---------------------------- specification --------------------------- *)

vars == <<inputVars, fillVars, storeVars, seqVars, poolVars, mpc>>

(* the state of a batch of n tasks that has not started; d0 is the state *)
(* of the session of automator 0                                        *)
InitRun(n, d0) ==
    /\ browser_pool = [w \in 0..(num_workers - 1) |-> 0]
    /\ lock = 0
    /\ processed_count = 0
    /\ results = EmptyBag
    /\ unyielded_ok = 0
    /\ unyielded_exc = 0
    /\ yielded = 0
    /\ stop_flag = FALSE
    /\ shutdown = FALSE
    /\ exc_pending = FALSE
    /\ running_at_cancel = {}
    /\ driver = [a \in 0..n |-> IF a = 0 THEN d0 ELSE "none"]
    /\ forms = [a \in 0..n |-> 0]
    /\ tpc = [t \in 1..n |-> "queued"]
    /\ attempt = [t \in 1..n |-> 0]
    /\ auto = [t \in 1..n |-> 0]
    /\ calls = [t \in 1..n |-> 0]
    /\ delays = [t \in 1..n |-> << >>]
    /\ ret = [t \in 1..n |-> NoOutcome]
    /\ screenshots = {}
    /\ captures = {}
    /\ self_results = EmptyBag
    /\ snapshots = 0
    /\ warnings = 0
    /\ result_queue = << >>
    /\ session_results = EmptyBag
    /\ stop_pressed = FALSE
    /\ seq_i = 1
    /\ last_call = NoCall
    /\ ncalls = 0
    /\ step = "none"
    /\ page_log = << >>
    /\ submit_clicks = 0
    /\ signal = "none"
    /\ last_error = NoError
    /\ error_msg = NoError
    /\ buf_list = << >>
    /\ csv_lines = << >>
    /\ csv_exists = FALSE
    /\ appended = << >>

(* the batch starts on a fresh checkpoint directory *)
InitTasks(n, d0) ==
    /\ InitRun(n, d0)
    /\ results_file = NoFile
    /\ checkpoint = NoCheckpoint

InitBatch(n, d0) ==
    /\ InitTasks(n, d0)
    /\ submitted = 0

Engines == {"chrome", "edge", "firefox"}

NoSheet == [cols |-> {}, rows |-> << >>]

(* The batches are explored on tasks 1..total_count: the spreadsheet and *)
(* the launch of the first session are explored on their own.            *)
InitCommon(main_driver) ==
    /\ total_count \in TaskCounts
    /\ num_workers \in WorkerCounts(total_count)
    /\ faulty \in {f \in SUBSET FaultyCandidates(total_count) :
                       Cardinality(f) <= MaxFaulty}
    /\ no_email \in BOOLEAN
    /\ io_faulty = FALSE
    /\ InitBatch(total_count, main_driver)
    /\ browser_choice = "auto"
    /\ launchable = Engines
    /\ tried = << >>
    /\ browser_name = "none"
    /\ excel = "ok"
    /\ sheet = NoSheet
    /\ students = << >>

SeqFillForm ==
    /\ mpc = "loop"
    /\ seq_i <= total_count
    /\ FillForm(seq_i)
    /\ UNCHANGED <<inputVars, poolVars, storeVars, result_queue, session_results,
                   stop_pressed, mpc, seq_i>>

(* the sequential path does not use the pool size or the callbacks *)
InitSeq ==
    /\ InitCommon("none")
    /\ total_count <= MaxTasks
    /\ num_workers = 1
    /\ bad_callbacks = FALSE
    /\ mpc = "start"

NextSeq ==
    \/ SeqStart
    \/ SeqStartFails
    \/ SeqStopCheck
    \/ SeqRestartIfNeeded
    \/ SeqFillForm
    \/ SeqAfterFill
    \/ SeqFillRaised
    \/ SeqFinalSave
    \/ PressStopSeq
    \/ DrainResultQueue

SpecSeq == InitSeq /\ [][NextSeq]_vars

(* The sequential path on the long batches, the page not rerun while the *)
(* batch is processed.                                                    *)
InitSeqLong ==
    /\ InitCommon("none")
    /\ total_count > MaxTasks
    /\ bad_callbacks = FALSE
    /\ mpc = "start"

NextSeqLong ==
    \/ SeqStart
    \/ SeqStartFails
    \/ SeqStopCheck
    \/ SeqRestartIfNeeded
    \/ SeqFillForm
    \/ SeqAfterFill
    \/ SeqFillRaised
    \/ SeqFinalSave
    \/ PressStopSeq

SpecSeqLong == InitSeqLong /\ [][NextSeqLong]_vars

(* The sequential path on the batch that passes the restart interval; the *)
(* task that completes the interval may be faulty.                        *)
InitSeqRestart ==
    /\ total_count = RestartIntervalSeq + 1
    /\ num_workers = 1
    /\ faulty \in SUBSET {RestartIntervalSeq}
    /\ bad_callbacks = FALSE
    /\ no_email = FALSE
    /\ io_faulty = FALSE
    /\ InitBatch(total_count, "none")
    /\ browser_choice = "auto"
    /\ launchable = Engines
    /\ tried = << >>
    /\ browser_name = "none"
    /\ excel = "ok"
    /\ sheet = NoSheet
    /\ students = << >>
    /\ mpc = "start"

SpecSeqRestart == InitSeqRestart /\ [][NextSeqLong]_vars

(* the outcomes of tasks 1..p, all successful *)
SuccessRows(p) == SetToBag({SuccessOutcome(t) : t \in 1..p})

(* The sequential path started on the checkpoint directory that a run     *)
(* stopped after p tasks has left: progress.json counts p tasks and       *)
(* results.csv holds their outcomes.                                      *)
InitResume ==
    /\ total_count \in 1..MaxTasks
    /\ num_workers = 1
    /\ faulty \in {f \in SUBSET (1..total_count) : Cardinality(f) <= MaxFaulty}
    /\ bad_callbacks = FALSE
    /\ no_email = FALSE
    /\ io_faulty = FALSE
    /\ InitRun(total_count, "none")
    /\ submitted = 0
    /\ \E p \in 1..total_count :
          /\ checkpoint = [exists |-> TRUE, processed_count |-> p,
                           total_count |-> total_count, results_count |-> p]
          /\ results_file = [exists |-> TRUE, rows |-> SuccessRows(p)]
    /\ browser_choice = "auto"
    /\ launchable = Engines
    /\ tried = << >>
    /\ browser_name = "none"
    /\ excel = "ok"
    /\ sheet = NoSheet
    /\ students = << >>
    /\ mpc = "start"

SpecResume == InitResume /\ [][NextSeqLong]_vars

(* The sequential path on the batches that reach the first checkpoint,   *)
(* on a directory whose writes can fail.                                 *)
InitSeqIo ==
    /\ total_count \in {CheckpointInterval, CheckpointInterval + 1}
    /\ num_workers = 1
    /\ faulty \in SUBSET {CheckpointInterval}
    /\ bad_callbacks = FALSE
    /\ no_email = FALSE
    /\ io_faulty = TRUE
    /\ InitBatch(total_count, "none")
    /\ browser_choice = "auto"
    /\ launchable = Engines
    /\ tried = << >>
    /\ browser_name = "none"
    /\ excel = "ok"
    /\ sheet = NoSheet
    /\ students = << >>
    /\ mpc = "start"

SpecSeqIo == InitSeqIo /\ [][NextSeqLong]_vars

(* The store of a constructed automator, called in any order on a fresh   *)
(* checkpoint directory.                                                  *)
InitStore ==
    /\ InitCommon("live")
    /\ total_count = MaxTasks
    /\ num_workers = 1
    /\ faulty = {}
    /\ bad_callbacks = FALSE
    /\ no_email = FALSE
    /\ mpc = "store"

NextStore ==
    \/ StoreAppend
    \/ StoreSaveCheckpoint
    \/ StoreSaveIncremental
    \/ StoreSaveResults

SpecStore == InitStore /\ [][NextStore]_vars

(* Outcomes appended to self.results and save_results_incremental, called *)
(* in any order on a fresh checkpoint directory.                          *)
InitCsv ==
    /\ InitCommon("live")
    /\ total_count = MaxTasks
    /\ num_workers = 1
    /\ faulty = {}
    /\ bad_callbacks = FALSE
    /\ no_email = FALSE
    /\ mpc = "csv"

NextCsv ==
    \/ CsvAppend
    \/ CsvSaveIncremental

SpecCsv == InitCsv /\ [][NextCsv]_vars

(* process_students_parallel is called on the constructed automator 0 *)
InitPar ==
    /\ InitCommon("live")
    /\ total_count <= MaxTasks
    /\ bad_callbacks \in BOOLEAN
    /\ no_email = FALSE
    /\ mpc = "submit"

NextPar ==
    \/ Submit
    \/ \E t \in Tasks : PoolStart(t)
    \/ \E t \in Tasks : PoolConstruct(t)
    \/ \E t \in Tasks : PoolConstructFails(t)
    \/ \E t \in Tasks : PoolAssign(t)
    \/ \E t \in Tasks : PoolReturn(t)
    \/ \E t \in Tasks : PoolFillForm(t)
    \/ \E t \in Tasks : PoolAcquire(t)
    \/ \E t \in Tasks : PoolCount(t)
    \/ \E t \in Tasks : PoolCallbacks(t)
    \/ \E t \in Tasks : PoolHandlerAcquire(t)
    \/ \E t \in Tasks : PoolHandlerAppend(t)
    \/ \E t \in Tasks : Finalize(t)
    \/ CollectStop
    \/ CollectResult
    \/ CollectException
    \/ ExitPool
    \/ Finally
    \/ FinalSave
    \/ SetStopFlag
    \/ ParPutResults
    \/ ParRaised
    \/ DrainResultQueue

SpecPar == InitPar /\ [][NextPar]_vars

(* The pool on the batches of at most MaxLockTasks tasks, callbacks that  *)
(* do not raise, Stop not pressed.                                        *)
InitLock ==
    /\ InitCommon("live")
    /\ total_count <= MaxLockTasks
    /\ bad_callbacks = FALSE
    /\ no_email = FALSE
    /\ mpc = "submit"

NextLock ==
    \/ Submit
    \/ \E t \in Tasks : PoolStart(t)
    \/ \E t \in Tasks : PoolConstruct(t)
    \/ \E t \in Tasks : PoolConstructFails(t)
    \/ \E t \in Tasks : PoolAssign(t)
    \/ \E t \in Tasks : PoolReturn(t)
    \/ \E t \in Tasks : PoolFillForm(t)
    \/ \E t \in Tasks : PoolAcquire(t)
    \/ \E t \in Tasks : PoolCount(t)
    \/ \E t \in Tasks : PoolCallbacks(t)
    \/ \E t \in Tasks : PoolHandlerAcquire(t)
    \/ \E t \in Tasks : PoolHandlerAppend(t)
    \/ CollectResult
    \/ CollectException
    \/ ExitPool
    \/ Finally
    \/ FinalSave
    \/ ParPutResults

SpecLock == InitLock /\ [][NextLock]_vars

(* The same pool with its threads scheduled fairly: the main thread and  *)
(* every pool thread that can take a step eventually takes one.          *)
SpecParLive == InitLock /\ [][NextLock]_vars /\ WF_vars(NextLock)

(* The pool on the long batches, one slot, callbacks that do not raise,   *)
(* Stop not pressed.                                                      *)
(* The slot's automator is constructed by task 1, which is not faulty:    *)
(* no constructor raises, no future holds an exception, and no automator  *)
(* is left unreferenced.                                                  *)
InitParLong ==
    /\ InitCommon("live")
    /\ total_count > MaxTasks
    /\ bad_callbacks = FALSE
    /\ no_email = FALSE
    /\ mpc = "submit"

NextParLong ==
    \/ Submit
    \/ \E t \in Tasks : PoolStart(t)
    \/ \E t \in Tasks : PoolConstruct(t)
    \/ \E t \in Tasks : PoolAssign(t)
    \/ \E t \in Tasks : PoolReturn(t)
    \/ \E t \in Tasks : PoolFillForm(t)
    \/ \E t \in Tasks : PoolAcquire(t)
    \/ \E t \in Tasks : PoolCount(t)
    \/ \E t \in Tasks : PoolCallbacks(t)
    \/ \E t \in Tasks : PoolHandlerAcquire(t)
    \/ \E t \in Tasks : PoolHandlerAppend(t)
    \/ CollectResult
    \/ ExitPool
    \/ Finally
    \/ FinalSave
    \/ ParPutResults

SpecParLong == InitParLong /\ [][NextParLong]_vars

(* The pool of one slot on the batch that passes the restart interval of *)
(* the slot's automator, from the point where every task is submitted    *)
(* and no thread has started one; the task that completes the interval   *)
(* is faulty.                                                            *)
InitParRestart ==
    /\ total_count = RestartIntervalPar + 1
    /\ num_workers = 1
    /\ faulty = {RestartIntervalPar}
    /\ bad_callbacks = FALSE
    /\ no_email = FALSE
    /\ io_faulty = FALSE
    /\ InitTasks(total_count, "live")
    /\ submitted = total_count
    /\ browser_choice = "auto"
    /\ launchable = Engines
    /\ tried = <<"chrome">>
    /\ browser_name = "Chrome"
    /\ excel = "ok"
    /\ sheet = NoSheet
    /\ students = << >>
    /\ mpc = "collect"

NextParRestart ==
    \/ \E t \in Tasks : PoolStart(t)
    \/ \E t \in Tasks : PoolConstruct(t)
    \/ \E t \in Tasks : PoolAssign(t)
    \/ \E t \in Tasks : PoolReturn(t)
    \/ \E t \in Tasks : PoolFillForm(t)
    \/ \E t \in Tasks : PoolAcquire(t)
    \/ \E t \in Tasks : PoolCount(t)
    \/ \E t \in Tasks : PoolCallbacks(t)
    \/ \E t \in Tasks : PoolHandlerAcquire(t)
    \/ \E t \in Tasks : PoolHandlerAppend(t)
    \/ CollectResult
    \/ ExitPool
    \/ Finally
    \/ FinalSave

SpecParRestart == InitParRestart /\ [][NextParRestart]_vars

(* run_automation from its first line: the constructor launches the      *)
(* session, the sheet is read, the sequential loop processes the tasks.  *)
SeqsUpTo(S, n) == UNION {[1..k -> S] : k \in 0..n}

Row(first, last, email, link, badge) ==
    [firstName |-> first, lastName |-> last, email |-> email,
     certificationName |-> Text(0, "Cert", 0),
     certificationLink |-> link, badgeOptIn |-> badge]

StartRows ==
    {Row(Text(0, "Ann", 0), Text(0, "Lee", 0), Text(0, "a@b.com", 0),
         Text(0, "http://x", 0), Blank),
     Row(Text(0, "Ann", 0), Text(0, "Lee", 0), Text(0, "a@b.com", 0),
         Blank, Blank)}

InitStart ==
    /\ total_count = 0
    /\ num_workers = 1
    /\ faulty = {}
    /\ bad_callbacks = FALSE
    /\ no_email = FALSE
    /\ io_faulty = FALSE
    /\ InitBatch(0, "none")
    /\ browser_choice \in {"auto"} \cup Engines
    /\ launchable \in SUBSET Engines
    /\ tried = << >>
    /\ browser_name = "none"
    /\ excel \in {"ok", "pandas_fails", "unreadable"}
    /\ sheet \in {[cols |-> Fields, rows |-> r] : r \in SeqsUpTo(StartRows, MaxRows)}
    /\ students = << >>
    /\ mpc = "setup"

NextStart ==
    \/ TryEngine
    \/ SetupFails
    \/ ReadExcel
    \/ SeqStopCheck
    \/ SeqRestartIfNeeded
    \/ SeqFillForm
    \/ SeqAfterFill
    \/ SeqFinalSave

SpecStart == InitStart /\ [][NextStart]_vars

(* The life of one automator: the constructor launches a session or      *)
(* raises, the session may stop responding, close_driver is called any   *)
(* number of times and __del__ ends it.                                  *)
InitClose ==
    /\ total_count = 0
    /\ num_workers = 1
    /\ faulty = {}
    /\ bad_callbacks = FALSE
    /\ no_email = FALSE
    /\ io_faulty = FALSE
    /\ InitBatch(0, "none")
    /\ browser_choice \in {"auto"} \cup Engines
    /\ launchable \in SUBSET Engines
    /\ tried = << >>
    /\ browser_name = "none"
    /\ excel = "ok"
    /\ sheet = NoSheet
    /\ students = << >>
    /\ mpc = "setup"

NextClose ==
    \/ TryEngine
    \/ SetupFails
    \/ SessionDies
    \/ CloseDriver
    \/ Del

SpecClose == InitClose /\ [][NextClose]_vars

(* read_excel on the sheets of at most MaxRows data rows, called on a     *)
(* constructed automator.                                                 *)
NameRows ==
    {Row(f, l, e, Text(0, "http://x", 0), Blank) :
        f \in {Blank, Text(0, "Ann", 0)},
        l \in {Blank, Text(0, "Lee", 0)},
        e \in {Blank, Text(0, "a@b.com", 0)}}

LinkCells ==
    {Blank, Text(0, "", 0), Text(1, "", 0), Text(0, "http://x", 0),
     Text(0, "http://y", 0), Text(1, "http://x", 1)}

LinkRows ==
    {Row(Text(0, "Ann", 0), Text(0, "Lee", 0), Text(0, "a@b.com", 0), k, Blank) :
        k \in LinkCells}

BadgeCells ==
    {Blank, Text(0, "", 0), Text(1, "", 0), Text(2, "", 0),
     Text(0, "Y", 0), Text(0, "1", 0), Text(0, "TRUE", 0), Text(0, "ok", 0),
     Text(1, "yes", 1), Text(0, "no", 0), Text(0, "2", 0), Text(0, "nope", 0),
     Text(0, "none", 0), Text(0, "None", 0)}

BadgeRows ==
    {Row(Text(0, "Ann", 0), Text(0, "Lee", 0), Text(0, "a@b.com", 0),
         Text(0, "http://y", 0), b) : b \in BadgeCells}

AllBlankRow == [f \in Fields |-> Blank]

SheetRows == NameRows \cup LinkRows \cup BadgeRows \cup {AllBlankRow}

(* the sheet has every column, or lacks one of them *)
SheetCols ==
    {Fields} \cup {Fields \ {f} : f \in {"firstName", "email", "badgeOptIn",
                                         "certificationLink"}}

InitSheet ==
    /\ total_count = 0
    /\ num_workers = 1
    /\ faulty = {}
    /\ bad_callbacks = FALSE
    /\ no_email = FALSE
    /\ io_faulty = FALSE
    /\ InitBatch(0, "live")
    /\ browser_choice = "auto"
    /\ launchable = Engines
    /\ tried = <<"chrome">>
    /\ browser_name = "Chrome"
    /\ excel \in {"ok", "pandas_fails"}
    /\ sheet \in {[cols |-> c, rows |-> r] :
                    c \in SheetCols, r \in SeqsUpTo(SheetRows, MaxRows)}
    /\ students = << >>
    /\ mpc = "constructed"

NextSheet == ReadExcel

SpecSheet == InitSheet /\ [][NextSheet]_vars

(* fill_form called once for a task on a constructed automator, its       *)
(* attempts followed step by step.                                        *)
InitFill ==
    /\ total_count = 1
    /\ num_workers = 1
    /\ faulty \in SUBSET {1}
    /\ bad_callbacks = FALSE
    /\ no_email \in BOOLEAN
    /\ io_faulty = FALSE
    /\ InitBatch(1, "live")
    /\ browser_choice = "auto"
    /\ launchable = Engines
    /\ tried = <<"chrome">>
    /\ browser_name = "Chrome"
    /\ excel = "ok"
    /\ sheet = NoSheet
    /\ students = << >>
    /\ mpc = "fill"

NextFill ==
    \/ \E t \in Tasks : FillCall(t)
    \/ \E t \in Tasks : SingleBegin(t)
    \/ \E t \in Tasks : SingleNavigate(t)
    \/ \E t \in Tasks : SingleInputs(t)
    \/ \E t \in Tasks : SingleFill(t)
    \/ \E t \in Tasks : SingleRadio(t)
    \/ \E t \in Tasks : SingleSubmit(t)
    \/ \E t \in Tasks : SingleConfirm(t)
    \/ \E t \in Tasks : SingleProbe(t)
    \/ \E t \in Tasks : SingleExhausted(t)

SpecFill == InitFill /\ [][NextFill]_vars

(* ------------------------------- claims ------------------------------- *)

(* C2: fill_form invokes _fill_form_single at most 3 times for a task; a  *)
(* Success outcome is returned by the attempt that made the k-th          *)
(* invocation, with no invocation after it, and a Failed outcome is       *)
(* returned after exactly 3 invocations.                                  *)
C2_RetryBound ==
    \A t \in Tasks :
       /\ calls[t] <= 3
       /\ tpc[t] \in {"probe", "relaunch", "exhausted"} => ret[t] = NoOutcome
       /\ tpc[t] = "filled" /\ ret[t].status = "Success" =>
             calls[t] = attempt[t] /\ calls[t] \in 1..3
       /\ tpc[t] = "filled" /\ ret[t].status # "Success" =>
             ret[t].status = "Failed" /\ calls[t] = 3

C2_Witness ==
    \E t \in Tasks :
       tpc[t] = "filled" /\ ret[t].status = "Failed" /\ calls[t] = 3

(* C3 as claimed: the n-th backoff wait of a fill_form call, made after   *)
(* the n-th failed attempt, lasts min(2^n, 10) seconds: 2 s, then 4 s.    *)
C3_BackoffFromFailure ==
    \A t \in Tasks :
       \A n \in 1..Len(delays[t]) : delays[t][n] = Min(2 ^ n, 10)

(* C3 as amended: the wait before attempt a (a = 2, 3) lasts min(2^a, 10) *)
(* seconds, 4 s before the second attempt and 8 s before the third; no    *)
(* wait exceeds 10 s, and there is one wait per attempt after the first,  *)
(* none after the final failure.                                          *)
C3_BackoffBeforeAttempt ==
    \A t \in Tasks :
       /\ delays[t] \in {<< >>, <<4>>, <<4, 8>>}
       /\ \A n \in 1..Len(delays[t]) : delays[t][n] <= 10
       /\ tpc[t] \in {"probe", "relaunch", "exhausted", "filled", "fill_raised"}
             => Len(delays[t]) = calls[t] - 1

C3_Witness ==
    \E t \in Tasks :
       tpc[t] = "filled" /\ ret[t].status = "Failed" /\ delays[t] = <<4, 8>>

(* C4 as claimed: fill_form never raises to its caller. *)
C4_NeverRaises == \A t \in Tasks : tpc[t] # "fill_raised"

(* C4 as amended: fill_form returns one outcome record for its task, and  *)
(* raises only when, after a failed attempt n < 3, the session does not   *)
(* answer the probe and relaunching it fails; the sequential run ends     *)
(* early only by that exception, by a failed launch or by Stop, never     *)
(* because a task's fill_form returned a Failed outcome.                  *)
C4_OutcomeOrLaunchFailure ==
    /\ \A t \in Tasks :
          /\ tpc[t] = "filled" =>
                ret[t].task = t /\ ret[t].status \in {"Success", "Failed"}
          /\ tpc[t] = "fill_raised" =>
                /\ ret[t] = NoOutcome
                /\ calls[t] < 3
                /\ driver[auto[t]] = "closed"
          /\ t < seq_i => tpc[t] = "done"
    /\ mpc = "done" => seq_i = total_count + 1
    /\ mpc = "stopped" => tpc[seq_i] = "queued"
    /\ mpc = "error" =>
          driver[0] = "none" \/ tpc[seq_i] \in {"fill_raised", "restart"}

(* a task that failed all its attempts, and the task after it processed *)
C4_Witness ==
    \E t \in Tasks :
       /\ \E ok \in BOOLEAN : <<t, ok>> \in captures
       /\ seq_i > t + 1

(* the outcomes of a bag that carry a status, or belong to a task *)
RowsWithStatus(b, st) ==
    BagCardinality([o \in {x \in BagToSet(b) : x.status = st} |-> b[o]])

OutcomesOf(t, b) ==
    BagCardinality([o \in {x \in BagToSet(b) : x.task = t} |-> b[o]])

(* the tasks that failed all their attempts *)
ExhaustedTasks == {c[1] : c \in captures}

InPool ==
    mpc \in {"submit", "collect", "exit_with", "finally", "final_save",
             "returned", "raised"}

(* the completed outcomes that are not in the results file *)
Unwritten ==
    BagCardinality((IF InPool THEN results ELSE self_results)
                   (-) results_file.rows)

(* C1: when process_students_parallel returns and the stop flag was never *)
(* set, the returned list holds exactly one outcome for every task and    *)
(* the processed counter equals the number of tasks.                      *)
C1_ExactlyOnce ==
    mpc = "returned" /\ ~stop_flag =>
       /\ \A t \in Tasks : OutcomesOf(t, results) = 1
       /\ processed_count = total_count

(* C5: no exception leaves the task function or the pool block, and a     *)
(* task whose exception was caught has exactly one outcome, the Failed    *)
(* one recorded at the task boundary.                                     *)
C5_CaughtAtTaskBoundary ==
    /\ \A t \in Tasks : tpc[t] # "raised"
    /\ ~exc_pending
    /\ \A t \in Tasks :
          BagIn(WorkerErrorOutcome(t), results) => OutcomesOf(t, results) = 1

(* C6: after a completed sequential run in which every screenshot was     *)
(* captured and the e-mail addresses differ, the results file has one row *)
(* per task, a Failed row for each of the f tasks that failed all their   *)
(* attempts and a Success row for each other task, and f screenshots      *)
(* exist.                                                                 *)
C6_FinalFile ==
    mpc = "done" /\ ~no_email /\ (\A c \in captures : c[2]) =>
       /\ results_file.exists
       /\ BagCardinality(results_file.rows) = total_count
       /\ RowsWithStatus(results_file.rows, "Failed") = Cardinality(ExhaustedTasks)
       /\ RowsWithStatus(results_file.rows, "Success") =
             total_count - Cardinality(ExhaustedTasks)
       /\ Cardinality(screenshots) = Cardinality(ExhaustedTasks)

(* C7: at every point of a run at most 50 completed outcomes are missing  *)
(* from the results file.                                                 *)
C7_UnwrittenBounded == Unwritten <= 50

(* C8: once the stop flag is set, no task that has not started is started *)
(* by a pool thread.                                                      *)
C8_NoStartAfterStop ==
    [][stop_flag =>
         \A t \in Tasks :
            tpc[t] = "queued" => tpc'[t] \in {"queued", "cancelled"}]_vars

(* C9: the function does not return while a task is running, and when it *)
(* returns after a cancellation every task that was running when the pool *)
(* was cancelled has its outcome in the returned list and in the results  *)
(* file.                                                                  *)
C9_RunningTasksFinish ==
    /\ mpc \in {"finally", "final_save", "returned", "raised"} =>
          \A t \in Tasks : ~TaskRunning(t)
    /\ mpc = "returned" /\ shutdown =>
          \A t \in running_at_cancel :
             /\ OutcomesOf(t, results) >= 1
             /\ OutcomesOf(t, results_file.rows) >= 1

(* C10: once the finally clause of the pool has run, no session launched  *)
(* for a worker slot is still open.                                       *)
C10_AllSessionsClosed ==
    mpc \in {"final_save", "returned", "raised"} =>
       \A a \in Tasks : driver[a] \notin {"live", "dead"}

(* C11: the outcome list and the processed counter change only in a step  *)
(* of the task that holds the lock, and whenever the lock is free the     *)
(* counter equals the length of the list.                                 *)
C11_LockProtects ==
    /\ [](lock = 0 => processed_count = BagCardinality(results))
    /\ [][(processed_count' # processed_count \/ results' # results) =>
             /\ lock # 0
             /\ tpc[lock] \in {"locked", "handler_locked"}
             /\ tpc'[lock] # tpc[lock]]_vars

(* a task counts its outcome while another task waits for the lock *)
C11_Witness ==
    /\ lock # 0
    /\ processed_count >= 1
    /\ tpc[lock] = "callbacks"
    /\ \E u \in Tasks : u # lock /\ tpc[u] \in {"filled", "fill_raised"}

(* the automators constructed for the pool, their sessions launched *)
Constructed == {a \in Tasks : driver[a] # "none"}

(* C12: a task runs fill_form on an automator of its own slot, no slot    *)
(* has two automators constructed for it, and at most num_workers worker  *)
(* sessions are launched.                                                 *)
C12_OneAutomatorPerSlot ==
    /\ \A t \in Tasks :
          HoldsAutomator(t) => auto[t] # 0 /\ SlotOf(auto[t]) = SlotOf(t)
    /\ \A a, b \in Constructed : SlotOf(a) = SlotOf(b) => a = b
    /\ Cardinality(Constructed) <= num_workers

(* C20: in the pool, whenever the lock is free and the processed counter  *)
(* is a positive multiple of 50, the checkpoint records that count.       *)
C20_CheckpointEvery50 ==
    InPool /\ lock = 0 /\ processed_count > 0 /\ CheckpointDue(processed_count) =>
       checkpoint.exists /\ checkpoint.processed_count = processed_count

(* C13: once a run has completed and the page has taken every item from  *)
(* result_queue, the tallied outcomes hold each task's outcome exactly    *)
(* once.                                                                  *)
C13_TallyExactlyOnce ==
    mpc = "done" /\ result_queue = << >> =>
       \A t \in Tasks : OutcomesOf(t, session_results) = 1

C18_LaunchOrder ==
    LET order == IF browser_choice = "auto"
                 THEN <<"chrome", "edge", "firefox">> ELSE <<browser_choice>>
        n == Len(tried)
    IN  /\ n <= Len(order)
        /\ \A i \in 1..n : tried[i] = order[i]
        /\ \A i \in 1..(n - 1) : tried[i] \notin launchable
        /\ mpc = "setup" =>
              /\ browser_name = "none"
              /\ \A i \in 1..n : tried[i] \notin launchable
        /\ mpc \notin {"setup", "error"} =>
              /\ n >= 1
              /\ tried[n] \in launchable
              /\ browser_name = EngineName(tried[n])
        /\ mpc = "error" /\ driver[0] = "none" =>
              /\ n = Len(order)
              /\ \A i \in 1..n : tried[i] \notin launchable

C18_Witness ==
    /\ browser_choice = "auto"
    /\ tried = <<"chrome", "edge">>
    /\ browser_name = "Edge"
    /\ "firefox" \in launchable
    /\ mpc = "loop"

(* C19: when the spreadsheet cannot be read the run does not complete    *)
(* normally: it never reports 'done'.                                    *)
C19_ReadFailureStops == excel = "unreadable" => mpc # "done"

(* the rows of the sheet whose certificate link is not blank, in order *)
HasLink(sh, row) ==
    /\ "certificationLink" \in sh.cols
    /\ row["certificationLink"].kind = "text"
    /\ row["certificationLink"].core # ""

RECURSIVE LinkedRows(_, _)
LinkedRows(sh, rows) ==
    IF rows = << >> THEN << >>
    ELSE (IF HasLink(sh, Head(rows)) THEN <<Head(rows)>> ELSE << >>)
         \o LinkedRows(sh, Tail(rows))

Placeholder(f) ==
    CASE f = "firstName" -> "Unknown"
      [] f = "lastName" -> "User"
      [] f = "email" -> "noemail@example.com"

(* C15: in each record a first name, last name or email whose cell is    *)
(* blank or whose column is absent is the placeholder, and a cell that   *)
(* holds a text is copied.                                               *)
C15_Placeholders ==
    mpc = "loop" /\ Len(students) = Len(LinkedRows(sheet, sheet.rows)) =>
        \A i \in 1..Len(students) :
            \A f \in {"firstName", "lastName", "email"} :
                LET c == LinkedRows(sheet, sheet.rows)[i][f]
                IN  students[i][f] =
                        IF f \notin sheet.cols \/ c.kind = "blank"
                        THEN Placeholder(f) ELSE c.core

(* C16: the badge of each record is "yes" when the Badge Opt-In cell is  *)
(* blank or absent, "yes" when its trimmed lower-case text is one of     *)
(* yes, y, 1, true, ok, and "no" for every other text.                   *)
C16_BadgeNormalization ==
    mpc = "loop" /\ Len(students) = Len(LinkedRows(sheet, sheet.rows)) =>
        \A i \in 1..Len(students) :
            LET c == LinkedRows(sheet, sheet.rows)[i]["badgeOptIn"]
            IN  students[i].badgeOptIn =
                    IF "badgeOptIn" \notin sheet.cols \/ c.kind = "blank" \/ c.core = ""
                    THEN "yes"
                    ELSE IF Lower(c.core) \in {"yes", "y", "1", "true", "ok"}
                         THEN "yes" ELSE "no"

(* the positions of a task inside fill_form *)
InFillForm(t) == tpc[t] \in {"attempt", "probe", "relaunch", "exhausted"}

(* C21: no two tasks are inside fill_form on the same automator at the   *)
(* same time.                                                            *)
C21_SlotSessionExclusive ==
    \A t, u \in Tasks :
        t # u /\ InFillForm(t) /\ InFillForm(u) => auto[t] # auto[u]

(* C22: after a completed run the results file has a row for every task   *)
(* of the run and a timestamped copy of the file was written.             *)
C22_ResultsComplete ==
    mpc = "done" =>
       /\ \A t \in Tasks : OutcomesOf(t, results_file.rows) >= 1
       /\ snapshots >= 1

(* C23: during one fill_form call Submit is clicked at most once: no      *)
(* attempt is made after a click, and the attempt that clicked returns    *)
(* Success.                                                               *)
C23_SubmitAtMostOnce ==
    /\ [](submit_clicks <= 1)
    /\ [](submit_clicks = 1 /\ step = "none" =>
              \A t \in Tasks : tpc[t] = "filled" /\ ret[t] = SuccessOutcome(t))
    /\ [][submit_clicks >= 1 => calls' = calls]_vars

(* the third attempt clicks Submit after two failed attempts *)
C23_Witness ==
    /\ submit_clicks = 1
    /\ calls[1] = max_retries
    /\ ret[1] = SuccessOutcome(1)

(* C24: a failed attempt before the last one is followed by the probe;    *)
(* a probe that answers leads to the next attempt on the same session, a  *)
(* probe that raises closes the session, which is relaunched before the   *)
(* next attempt; the last failed attempt is followed by neither, and the  *)
(* session is replaced nowhere else in fill_form.                         *)
C24_ProbeThenRelaunch ==
    [][\A t \in Tasks :
        LET a == auto[t]
        IN  /\ tpc[t] = "single" /\ tpc'[t] \notin {"single", "filled"} =>
                  tpc'[t] = IF attempt[t] < 3 THEN "probe" ELSE "exhausted"
            /\ tpc[t] = "probe" /\ tpc'[t] # "probe" =>
                  IF driver[a] = "live"
                  THEN /\ tpc'[t] = "attempt"
                       /\ attempt'[t] = attempt[t] + 1
                       /\ driver' = driver
                  ELSE /\ tpc'[t] = "relaunch"
                       /\ driver'[a] = "closed"
            /\ tpc[t] = "relaunch" /\ tpc'[t] # "relaunch" =>
                  \/ /\ tpc'[t] = "attempt"
                     /\ attempt'[t] = attempt[t] + 1
                     /\ driver'[a] = "live"
                  \/ /\ tpc'[t] = "fill_raised"
                     /\ driver' = driver
            /\ tpc[t] = "exhausted" /\ tpc'[t] # "exhausted" =>
                  /\ tpc'[t] = "filled"
                  /\ driver' = driver
            /\ driver'[a] # driver[a] /\ driver'[a] \in {"closed", "live"} =>
                  tpc[t] \in {"probe", "relaunch"}]_vars

(* the probe after the second failed attempt raised: the session is closed *)
C24_Witness ==
    /\ tpc[1] = "relaunch"
    /\ attempt[1] = 2
    /\ driver[0] = "closed"

(* C25: a screenshot is attempted for a task only when its last attempt   *)
(* has failed, never for a task that succeeds; captured or not, fill_form *)
(* returns the Failed outcome, which carries the error of the last        *)
(* attempt.                                                               *)
C25_ScreenshotOnFinalFailure ==
    \A t \in Tasks :
        /\ (\E c \in captures : c[1] = t) =>
              /\ calls[t] = max_retries
              /\ tpc[t] = "filled"
              /\ ret[t] = FailedOutcome(t)
              /\ error_msg = last_error
              /\ error_msg.attempt = max_retries
        /\ ret[t].status = "Success" => ~(\E c \in captures : c[1] = t)
        /\ screenshots # {} => \E c \in captures : c[2]

(* the capture raised and the Failed outcome is returned all the same *)
C25_Witness ==
    /\ <<1, FALSE>> \in captures
    /\ ret[1] = FailedOutcome(1)
    /\ error_msg.at = "submit"

IsPrefix(p, q) == Len(p) <= Len(q) /\ SubSeq(q, 1, Len(p)) = p

(* C26: on the page an attempt loaded it does, in this order: the load,  *)
(* the wait for three text inputs or more, first name into input 0, last *)
(* name into input 1, email into input 2, the radio, the Submit click;   *)
(* Success is returned only after the click, and an attempt that failed  *)
(* has not clicked.                                                      *)
C26_StepOrder ==
    /\ \E n \in 3..MaxInputs :
          IsPrefix(page_log,
                   <<Ev("get", 0, "certificationLink"), Ev("inputs", n, ""),
                     Ev("fill", 0, "firstName"), Ev("fill", 1, "lastName"),
                     Ev("fill", 2, "email"), Ev("radio", 0, "badgeOptIn"),
                     Ev("submit", 0, "")>>)
    /\ \A t \in Tasks :
          /\ ret[t].status = "Success" =>
                page_log # << >> /\ page_log[Len(page_log)].kind = "submit"
          /\ tpc[t] \in {"probe", "relaunch", "exhausted", "fill_raised"} =>
                \A i \in 1..Len(page_log) : page_log[i].kind # "submit"

(* an attempt that stopped at the radio, the three fields typed *)
C26_Witness ==
    /\ tpc[1] = "probe"
    /\ last_error.at = "radio"
    /\ Len(page_log) = 5
    /\ page_log[2].input > 3

(* C27: the attempt that clicked Submit returns Success whether a         *)
(* submission signal was seen or not, and no attempt follows it.          *)
C27_SuccessWithoutSignal ==
    /\ [](signal # "none" =>
              \A t \in Tasks : tpc[t] = "filled" /\ ret[t] = SuccessOutcome(t))
    /\ [][step = "confirm" /\ step' # "confirm" =>
              /\ signal' \in {"seen", "absent"}
              /\ calls' = calls
              /\ last_error' = last_error]_vars

C27_Witness ==
    /\ signal = "absent"
    /\ ret[1] = SuccessOutcome(1)
    /\ tpc[1] = "filled"

(* C28: restart_browser_if_needed relaunches the session and resets the  *)
(* counter when the counter has reached the interval (or raises, which   *)
(* ends the run), and changes neither below the interval; no task is     *)
(* inside fill_form of the sequential loop with the counter at or above  *)
(* the interval.                                                         *)
C28_RestartWhenDue ==
    /\ [](\A t \in Tasks : InFillForm(t) => forms[0] < RestartIntervalSeq)
    /\ [][(/\ seq_i \in Tasks
            /\ tpc[seq_i] = "restart"
            /\ (tpc'[seq_i] # "restart" \/ mpc' # mpc)) =>
             (IF forms[0] >= RestartIntervalSeq
              THEN \/ /\ driver'[0] = "live"
                      /\ forms'[0] = 0
                      /\ tpc'[seq_i] = "attempt"
                   \/ /\ mpc' = "error"
                      /\ driver'[0] = "closed"
              ELSE /\ driver' = driver
                   /\ forms' = forms
                   /\ tpc'[seq_i] = "attempt")]_vars

(* the session was relaunched before the task after the interval *)
C28_Witness ==
    /\ seq_i = RestartIntervalSeq + 1
    /\ tpc[seq_i] = "attempt"
    /\ forms[0] = 0
    /\ driver[0] = "live"

(* C29: no task is inside fill_form on a worker automator whose session  *)
(* has processed its restart interval of forms.                          *)
C29_WorkerSessionReplaced ==
    \A t \in Tasks :
        InFillForm(t) /\ auto[t] # 0 => forms[auto[t]] < RestartIntervalPar

(* C30: results.csv, once written, is one header line followed by the    *)
(* flushed outcomes, each once, in the order they were appended to the   *)
(* buffer; the outcomes not yet flushed are the buffer; a flush that     *)
(* writes leaves the buffer empty.                                       *)
C30_HeaderThenRowsOnce ==
    /\ [](IF ~csv_exists
          THEN csv_lines = << >> /\ buf_list = appended
          ELSE /\ csv_lines # << >>
               /\ csv_lines[1] = Header
               /\ \A i \in 2..Len(csv_lines) : csv_lines[i] # Header
               /\ Tail(csv_lines) \o buf_list = appended)
    /\ [][csv_lines' # csv_lines => buf_list # << >> /\ buf_list' = << >>]_vars

Range(q) == {q[i] : i \in 1..Len(q)}

(* C36: a save_results_incremental call that fails leaves the buffer as  *)
(* it was, and every outcome appended so far is in the buffer or in the  *)
(* file.                                                                 *)
C36_FailedFlushKeepsBuffer ==
    /\ [][(ncalls' # ncalls /\ last_call'.op \in IoFaults)
            => buf_list' = buf_list]_vars
    /\ [](Range(appended) \subseteq Range(buf_list) \cup Range(csv_lines))

(* C32: a save that fails is logged and nothing leaves the call: the     *)
(* step that logs the failure does not end the run with an error, inside *)
(* the loop it moves on to the next task, and once the 50th task is      *)
(* passed a checkpoint that does not count 50 has left a log entry.      *)
C32_SaveFailureSwallowed ==
    /\ [][warnings' > warnings =>
            /\ mpc' \in {"loop", "stopped", "done"}
            /\ mpc' = "loop" => /\ seq_i' = seq_i + 1
                                /\ tpc'[seq_i] = "done"]_vars
    /\ [](( /\ mpc = "loop"
            /\ seq_i > CheckpointInterval
            /\ ~(checkpoint.exists /\ checkpoint.processed_count = CheckpointInterval))
           => warnings >= 1)

(* the checkpoint of task 50 failed and task 51 has been processed *)
C32_Witness ==
    /\ warnings >= 1
    /\ checkpoint # SaveCheckpoint(CheckpointInterval, total_count, FALSE,
                                   EmptyBag, NoFile).checkpoint
    /\ mpc = "loop"
    /\ total_count = CheckpointInterval + 1
    /\ seq_i = total_count
    /\ tpc[seq_i] = "filled"

(* C33: once Stop is pressed in a sequential run no task is started any  *)
(* more; a run that has stopped has saved a checkpoint counting the      *)
(* tasks completed; every outcome the loop has produced is tallied by    *)
(* the page or still waits on result_queue.                              *)
C33_StopBeforeNextTask ==
    /\ [][\A t \in Tasks :
            (stop_pressed /\ tpc[t] = "queued") => tpc'[t] = "queued"]_vars
    /\ [](mpc = "stopped" =>
            /\ checkpoint.exists
            /\ checkpoint.processed_count = seq_i - 1)
    /\ [](mpc \in {"loop", "stopped"} =>
            session_results (+) ResultItems(result_queue)
                = self_results (+) results_file.rows)

(* C34: the counter of process_students_parallel never exceeds the       *)
(* number of tasks, and no checkpoint counts more tasks than its total.  *)
C34_ProcessedWithinTotal ==
    /\ processed_count <= total_count
    /\ checkpoint.exists => checkpoint.processed_count <= checkpoint.total_count

(* C35: forms_processed_since_restart is 0 after every launch of the     *)
(* session, and otherwise changes only by one, when a fill_form call on  *)
(* the automator returns.                                                *)
C35_CounterMatchesSession ==
    /\ [][\A a \in DOMAIN driver :
            (driver[a] # "live" /\ driver'[a] = "live") => forms'[a] = 0]_vars
    /\ [][\A a \in DOMAIN forms :
            forms'[a] # forms[a] =>
               \/ forms'[a] = 0
               \/ /\ forms'[a] = forms[a] + 1
                  /\ \E t \in Tasks : /\ auto[t] = a
                                      /\ tpc[t] # "filled"
                                      /\ tpc'[t] = "filled"]_vars

(* C37: close_driver never raises, whatever the state of the session;    *)
(* it leaves a session that was never launched as it is and any other    *)
(* session closed, so a second call changes nothing.                     *)
C37_CloseNeverRaises ==
    /\ [](mpc # "close_raised")
    /\ [][ncalls' # ncalls =>
            /\ driver'[0] = (IF driver[0] = "none" THEN "none" ELSE "closed")
            /\ driver[0] \in {"none", "closed"} => driver' = driver]_vars

(* close_driver, then __del__ on the closed session, whose quit() raised *)
C37_Witness ==
    /\ mpc = "deleted"
    /\ ncalls >= 2
    /\ driver[0] = "closed"
    /\ last_call.op = "quit_raised"

(* C38: when the stop flag is never set, process_students_parallel       *)
(* eventually returns with an outcome for every task.                    *)
C38_PoolReturnsWithOutcomes ==
    ([]~stop_flag) =>
       <>(/\ mpc = "returned"
          /\ \A t \in Tasks : OutcomesOf(t, results) >= 1)

=============================================================================
